---- MODULE Spec2Model ----
(***************************************************************************)
(* The run state machine and step-orchestration loop of the agent harness: *)
(* src/agent/loop.ts (runAgentLoop, executeModelCall, terminateRun),       *)
(* src/agent/state.ts, src/agent/utils.ts and the default tool executor of *)
(* src/tools/index.ts.                                                     *)
(*                                                                         *)
(* One action is one turn of the JavaScript event loop: the code that runs *)
(* between two awaits.  The capabilities the loop awaits (the model, a     *)
(* tool handler, a custom tool executor) answer with a value drawn from a  *)
(* small alphabet; the run observers it calls return or throw.             *)
(***************************************************************************)
EXTENDS Integers, Sequences, FiniteSets, TLC

\* Largest config.maxSteps a run is started with.
MaxSteps == 2
\* Largest config.maxToolCalls a run is started with (besides "not set").
MaxBudget == 2
\* Most requested actions in one assistant turn.
MaxCalls == 2
\* Most non-final chunks a stream yields in one model call.
MaxChunks == 1
\* Most actions the model requests over one run, all turns together.
MaxRequested == 3

VARIABLES
  params,         \* RunAgentLoopParams: config, llm, toolExecutor; the host
  state,          \* AgentState
  pc,             \* where runAgentLoop stands
  i,              \* the loop counter of runAgentLoop
  stepIndex,      \* const stepIndex of the current iteration
  call,           \* the executeModelCall awaiting the model, then its result
  batch,          \* the toolExecutor.execute that is being awaited
  result,         \* the AgentRunResult built after the loop
  thrown,         \* what runAgentLoop rejected with, if it did
  observed,       \* what each run observer has been handed
  modelCalls,     \* how often llm.chat / llm.chatStream was called
  executorCalls   \* how often toolExecutor.execute was called

vars == <<params, state, pc, i, stepIndex, call, batch, result, thrown,
          observed, modelCalls, executorCalls>>

Has(r, f) == f \in DOMAIN r

\* typeof value, read off the first character of the printed value; an array
\* is told apart from an object, as zod does in the issues it reports.
TypeOf(value) ==
  LET c == SubSeq(ToString(value), 1, 1) IN
  IF c = "\"" THEN "string"
  ELSE IF c \in {"T", "F"} THEN "boolean"
  ELSE IF c = "[" THEN "object"
  ELSE IF c = "<" THEN "array"
  ELSE "number"

\* r with field f set to v (an assignment r.f = v).
Assign(r, f, v) == [x \in {f} |-> v] @@ r

----------------------------------------------------------------------------
(* src/utils/error.ts *)

\* A thrown value: an Error with a message, or any other value (its String()).
ThrownValues ==
  { [isError |-> TRUE, message |-> "model down"],
    [isError |-> FALSE, message |-> "timeout"] }

toErrorMessage(err, defaultPrefix) ==
  IF err.isError THEN err.message ELSE defaultPrefix \o ": " \o err.message

----------------------------------------------------------------------------
(* src/llm/types.ts: messages and tool calls *)

\* The argument payloads a model sends, and what JSON.parse makes of them.
ValidAddArgs == "{\"a\":2,\"b\":3}"
ValidEchoArgs == "{\"message\":\"hi\"}"
BrokenArgs == "{oops"

JsonParses(text) == text \in {ValidAddArgs, ValidEchoArgs, "{}"}

JsonParse(text) ==
  CASE text = ValidAddArgs -> [a |-> 2, b |-> 3]
    [] text = ValidEchoArgs -> [message |-> "hi"]
    [] text = "{}" -> << >>

\* The requested actions (LLMToolCall) an assistant turn is made of.
ToolCallAlphabet ==
  { [id |-> "call_a", name |-> "add_numbers", arguments |-> ValidAddArgs],
    [id |-> "", name |-> "add_numbers", arguments |-> BrokenArgs],
    [id |-> "call_b", name |-> "echo", arguments |-> ""],
    [id |-> "call_a", name |-> "lookup", arguments |-> ValidEchoArgs] }

ToolCallLists ==
  UNION { [1..n -> ToolCallAlphabet] : n \in 0..MaxCalls }

\* An assistant turn that requests no action.
FinalAnswerMessage == [role |-> "assistant", content |-> "answer"]

\* What the model capability can hand back as "message".
ModelMessages ==
  { [role |-> "assistant", content |-> "answer", toolCalls |-> tcs] :
      tcs \in ToolCallLists }
  \cup { FinalAnswerMessage, [role |-> "user", content |-> "echoed"] }

SystemMessage == [role |-> "system", content |-> "You are a tool-using AI agent."]
UserMessage == [role |-> "user", content |-> "Task: demo"]

----------------------------------------------------------------------------
(* src/agent/state.ts *)

\* getNextStepMeta with ordinal ids: the first step is "step-1".
getNextStepMetaOrdinalId(st) ==
  [id |-> "step-" \o ToString(Len(st.steps) + 1), index |-> Len(st.steps)]

getNextStepMeta(st) ==
  [id |-> "step-" \o ToString(Len(st.steps)), index |-> Len(st.steps)]

createInitialState(system, user) ==
  [status |-> "idle",
   messages |-> <<system, user>>,
   steps |-> << >>,
   totalToolCalls |-> 0]

stateToRunResult(st) ==
  [status |-> st.status,
   steps |-> st.steps,
   totalToolCalls |-> st.totalToolCalls]
  @@ (IF Has(st, "terminationReason")
        THEN [terminationReason |-> st.terminationReason] ELSE << >>)
  @@ (IF Has(st, "finalAnswer") THEN [finalAnswer |-> st.finalAnswer] ELSE << >>)
  @@ (IF Has(st, "error") THEN [error |-> st.error] ELSE << >>)

\* JSON.stringify of the characters of a string: the quote, the backslash and
\* the line feed are escaped, every other character of these texts stands
\* for itself.
JsonEscapeChar(c) ==
  IF c = "\"" THEN "\\\""
  ELSE IF c = "\\" THEN "\\\\"
  ELSE IF c = "\n" THEN "\\n"
  ELSE c

JsonEscape[text \in STRING] ==
  IF Len(text) = 0 THEN ""
  ELSE IF Len(text) = 1 THEN JsonEscapeChar(text)
  ELSE LET half == Len(text) \div 2 IN
       JsonEscape[SubSeq(text, 1, half)]
       \o JsonEscape[SubSeq(text, half + 1, Len(text))]

\* JSON.stringify of a string.
JsonString(text) == "\"" \o JsonEscape[text] \o "\""

\* JSON.stringify of an integer.
JsonNumber(n) == ToString(n)

\* JSON.stringify(data) of the payloads the basic tools return: { a, b, sum },
\* { message } and { iso }, without white space.
JsonStringify(data) ==
  IF Has(data, "sum")
    THEN "{\"a\":" \o JsonNumber(data.a) \o ",\"b\":" \o JsonNumber(data.b)
         \o ",\"sum\":" \o JsonNumber(data.sum) \o "}"
  ELSE IF Has(data, "message")
    THEN "{\"message\":" \o JsonString(data.message) \o "}"
  ELSE "{\"iso\":" \o JsonString(data.iso) \o "}"

\* The indentation of nesting depth level under JSON.stringify(_, null, 2).
JsonIndent[level \in Nat] ==
  IF level = 0 THEN "" ELSE "  " \o JsonIndent[level - 1]

\* The elements of an array or the members of an object, one per line.
JsonLines[items \in Seq(STRING), level \in Nat] ==
  IF items = << >> THEN ""
  ELSE JsonIndent[level] \o Head(items)
       \o (IF Len(items) = 1 THEN "\n" ELSE ",\n")
       \o JsonLines[Tail(items), level]

\* JSON.stringify(_, null, 2) of an array whose elements are already text.
JsonArray[items \in Seq(STRING), level \in Nat] ==
  IF items = << >> THEN "[]"
  ELSE "[\n" \o JsonLines[items, level + 1] \o JsonIndent[level] \o "]"

\* JSON.stringify(_, null, 2) of an object whose members are already text.
JsonObject[members \in Seq(STRING), level \in Nat] ==
  IF members = << >> THEN "{}"
  ELSE "{\n" \o JsonLines[members, level + 1] \o JsonIndent[level] \o "}"

JsonMember(key, valueText) == JsonString(key) \o ": " \o valueText

\* JSON.stringify(_, null, 2) of one issue of a ZodError.
JsonStringifyIssue(issue, level) ==
  JsonObject[<<JsonMember("code", JsonString(issue.code)),
               JsonMember("expected", JsonString(issue.expected)),
               JsonMember("received", JsonString(issue.received)),
               JsonMember("path",
                 JsonArray[[k \in 1..Len(issue.path) |-> JsonString(issue.path[k])],
                           level + 1]),
               JsonMember("message", JsonString(issue.message))>>,
             level]

\* JSON.stringify(_, null, 2) of the issue list of a ZodError.
JsonStringifyIssues(issues, level) ==
  JsonArray[[k \in 1..Len(issues) |-> JsonStringifyIssue(issues[k], level + 1)],
            level]

\* JSON.stringify(_, null, 2) of error.details: the issue list of a validation
\* error, { stack } of an execution error.
JsonStringifyDetails(error, level) ==
  IF error.type = "validation"
    THEN JsonStringifyIssues(error.details, level)
    ELSE JsonObject[<<JsonMember("stack", JsonString(error.details.stack))>>, level]

\* JSON.stringify({ error }, null, 2): the members of error in the order they
\* were written, an undefined member left out.
JsonStringifyError(error) ==
  JsonObject[
    <<JsonMember("error",
        JsonObject[
          <<JsonMember("type", JsonString(error.type)),
            JsonMember("message", JsonString(error.message))>>
          \o (IF Has(error, "retryable")
                THEN <<JsonMember("retryable",
                                  IF error.retryable THEN "true" ELSE "false")>>
                ELSE << >>)
          \o (IF Has(error, "details")
                THEN <<JsonMember("details", JsonStringifyDetails(error, 2))>>
                ELSE << >>),
          1])>>,
    0]

\* The tool message correlated by the name of the tool.
ToolMessageOfToolName(res) ==
  [role |-> "tool",
   content |-> IF res.ok
                 THEN (IF Has(res, "data") THEN JsonStringify(res.data) ELSE "null")
                 ELSE JsonStringifyError(res.error),
   toolCallId |-> res.toolName]

ToolMessageOf(res) ==
  [role |-> "tool",
   content |-> IF res.ok
                 THEN (IF Has(res, "data") THEN JsonStringify(res.data) ELSE "null")
                 ELSE JsonStringifyError(res.error),
   toolCallId |-> res.callId]

\* appendToolResultMessages putting the tool messages in front of the history.
appendToolResultMessagesInFront(st, toolResults) ==
  [st EXCEPT !.messages =
     [k \in 1..Len(toolResults) |-> ToolMessageOf(toolResults[k])] \o @]

\* appendToolResultMessages leaving out the results that failed.
appendToolResultMessagesOkOnly(st, toolResults) ==
  LET oks == SelectSeq(toolResults, LAMBDA r : r.ok) IN
  [st EXCEPT !.messages =
     @ \o [k \in 1..Len(oks) |-> ToolMessageOf(oks[k])]]

appendToolResultMessages(st, toolResults) ==
  [st EXCEPT !.messages =
     @ \o [k \in 1..Len(toolResults) |-> ToolMessageOf(toolResults[k])]]

----------------------------------------------------------------------------
(* src/agent/utils.ts *)

\* The translation leaving out the actions whose arguments do not parse.
toolCallsToInvocationsSkipsUnparseable(toolCalls, sIndex) ==
  LET kept == SelectSeq(toolCalls,
                LAMBDA tc : tc.arguments = "" \/ JsonParses(tc.arguments))
  IN [idx \in 1..Len(kept) |->
        LET tc == kept[idx] IN
        [callId |-> IF tc.id # "" THEN tc.id
                    ELSE "toolcall-" \o ToString(sIndex) \o "-" \o ToString(idx - 1),
         toolName |-> tc.name,
         args |-> IF tc.arguments = "" THEN << >> ELSE JsonParse(tc.arguments)]]

\* The translation counting positions from one in the synthesized callId.
toolCallsToInvocationsOneBased(toolCalls, sIndex) ==
  [idx \in 1..Len(toolCalls) |->
     LET tc == toolCalls[idx] IN
     [callId |-> IF tc.id # "" THEN tc.id
                 ELSE "toolcall-" \o ToString(sIndex) \o "-" \o ToString(idx),
      toolName |-> tc.name,
      args |-> IF tc.arguments = "" THEN << >>
               ELSE IF JsonParses(tc.arguments) THEN JsonParse(tc.arguments)
               ELSE [_raw |-> tc.arguments]]]

toolCallsToInvocations(toolCalls, sIndex) ==
  [idx \in 1..Len(toolCalls) |->
     LET tc == toolCalls[idx] IN
     [callId |-> IF tc.id # "" THEN tc.id
                 ELSE "toolcall-" \o ToString(sIndex) \o "-" \o ToString(idx - 1),
      toolName |-> tc.name,
      args |-> IF tc.arguments = "" THEN << >>
               ELSE IF JsonParses(tc.arguments) THEN JsonParse(tc.arguments)
               ELSE [_raw |-> tc.arguments]]]

----------------------------------------------------------------------------
(* src/tools/basicTools.ts and src/tools/index.ts: the default executor *)

\* buildToolRegistry(getBasicTools()): the registered tool names.
Registry == {"echo", "get_current_time", "add_numbers"}

\* The tools that carry an argsSchema (echoArgsSchema).
HasArgsSchema(toolName) == toolName = "echo"

\* The issues z.object({ message: z.string() }) finds in args: message is
\* required, and it has to be a string.
ZodIssues(args) ==
  IF ~Has(args, "message")
    THEN <<[code |-> "invalid_type", expected |-> "string", received |-> "undefined",
            path |-> <<"message">>, message |-> "Required"]>>
  ELSE IF TypeOf(args.message) # "string"
    THEN <<[code |-> "invalid_type", expected |-> "string",
            received |-> TypeOf(args.message),
            path |-> <<"message">>,
            message |-> "Expected string, received "
                        \o TypeOf(args.message)]>>
  ELSE << >>

\* argsSchema.safeParse(args) of the echo tool: z.object({ message: z.string() }).
\* On failure error is the ZodError: its issues, and as message their JSON text.
SafeParse(toolName, args) ==
  IF ZodIssues(args) = << >>
    THEN [success |-> TRUE, data |-> [message |-> args.message]]
    ELSE [success |-> FALSE,
          error |-> [issues |-> ZodIssues(args),
                     message |-> JsonStringifyIssues(ZodIssues(args), 0)]]

\* details: err.issues?.length ? err.issues : undefined
ValidationError(err) ==
  [type |-> "validation", message |-> err.message, retryable |-> FALSE]
  @@ (IF Len(err.issues) > 0 THEN [details |-> err.issues] ELSE << >>)

\* details: err instanceof Error ? { stack: err.stack } : undefined
ExecutionError(err) ==
  [type |-> "execution",
   message |-> toErrorMessage(err, "Unknown tool error"),
   retryable |-> FALSE]
  @@ (IF err.isError THEN [details |-> [stack |-> err.stack]] ELSE << >>)

\* The hosts a run is put on: each has its Error.stackTraceLimit (no frame,
\* the frame of the throw only, or V8's default of 10), the directory, as a
\* file URL, the repository is installed in, and its entry point, which is
\* who awaits runAgentLoop: main of src/index.ts, an async function, or a
\* plain caller that is not one and so leaves no frame behind the loop's.
\* A host that records no frame shows nothing of its install directory nor of
\* its caller, and one that records a single frame nothing of its caller, so
\* one such host stands for all of them.
Hosts ==
  { [stackTraceLimit |-> 0, installUrl |-> "file:///srv/agent-harness",
     entryPoint |-> "main"],
    [stackTraceLimit |-> 1, installUrl |-> "file:///root/workspace/validation/repo",
     entryPoint |-> "main"],
    [stackTraceLimit |-> 10, installUrl |-> "file:///root/workspace/validation/repo",
     entryPoint |-> "plain"],
    [stackTraceLimit |-> 10, installUrl |-> "file:///srv/agent-harness",
     entryPoint |-> "main"] }

\* The host of the runs whose executor calls no handler of the repository.
AnyHost ==
  [stackTraceLimit |-> 10, installUrl |-> "file:///srv/agent-harness",
   entryPoint |-> "main"]

\* The frames behind runAgentLoop's: the async functions that await it.
\* main awaits it at src/index.ts:43.
AsyncCallerFrames(host) ==
  IF host.entryPoint = "main"
    THEN <<"async main (" \o host.installUrl \o "/src/index.ts:43:3)">>
    ELSE << >>

\* The call sites V8 records when the handler of add_numbers throws inside a
\* run of the default executor, innermost first, the files named by their URL
\* on the host: the handler, executeToolInvocation that calls it, the arrow
\* function handed to map, map, executeToolInvocations, the executor's execute,
\* runAgentLoop resumed after the model call, and the async callers.
AddNumbersThrowFrames(host) ==
  <<"Object.handler (" \o host.installUrl \o "/src/tools/basicTools.ts:85:13)",
    "executeToolInvocation (" \o host.installUrl \o "/src/tools/index.ts:112:45)",
    host.installUrl \o "/src/tools/index.ts:150:7",
    "Array.map (<anonymous>)",
    "executeToolInvocations (" \o host.installUrl \o "/src/tools/index.ts:149:17)",
    "Object.execute (" \o host.installUrl \o "/src/tools/index.ts:24:14)",
    "runAgentLoop (" \o host.installUrl \o "/src/agent/loop.ts:272:46)">>
  \o AsyncCallerFrames(host)

\* The frames of a stack, one line each, cut at the host's limit.
RECURSIVE StackLines(_, _)
StackLines(frames, limit) ==
  IF frames = << >> \/ limit = 0 THEN ""
  ELSE "\n    at " \o Head(frames) \o StackLines(Tail(frames), limit - 1)

\* new Error(message).stack: the header line and the frames.
ErrorStack(message, frames, limit) ==
  "Error: " \o message \o StackLines(frames, limit)

\* typeof a === 'number' && typeof b === 'number'
BothNumbers(args) ==
  /\ Has(args, "a") /\ TypeOf(args.a) = "number"
  /\ Has(args, "b") /\ TypeOf(args.b) = "number"

\* tool.handler(args, ctx): the value it resolves to, or the value it throws.
\* The Error add_numbers throws carries the stack the host gives it.
HandlerOutcome(toolName, args, host) ==
  CASE toolName = "echo" ->
         [threw |-> FALSE, data |-> [message |-> args.message]]
    [] toolName = "get_current_time" ->
         [threw |-> FALSE, data |-> [iso |-> "2026-01-01T00:00:00.000Z"]]
    [] toolName = "add_numbers" ->
         IF BothNumbers(args)
           THEN [threw |-> FALSE,
                 data |-> [a |-> args.a, b |-> args.b, sum |-> args.a + args.b]]
           ELSE LET message == "add_numbers: \"a\" and \"b\" must both be numbers"
                IN [threw |-> TRUE,
                    err |-> [isError |-> TRUE,
                             message |-> message,
                             stack |-> ErrorStack(message,
                                        AddNumbersThrowFrames(host),
                                        host.stackTraceLimit)]]

\* A failure result that still says ok.
makeErrorResultMarkedOk(invocation, error) ==
  [callId |-> invocation.callId,
   toolName |-> invocation.toolName,
   ok |-> TRUE,
   error |-> error]

makeErrorResult(invocation, error) ==
  [callId |-> invocation.callId,
   toolName |-> invocation.toolName,
   ok |-> FALSE,
   error |-> error]

\* The arguments the handler is called with (argsToUse).
ArgsToUse(invocation) ==
  IF HasArgsSchema(invocation.toolName)
    THEN SafeParse(invocation.toolName, invocation.args).data
    ELSE invocation.args

\* executeToolInvocation calling the handler before the schema is consulted.
executeToolInvocationStartHandlerFirst(invocation) ==
  IF invocation.toolName \notin Registry
    THEN [settled |-> TRUE, handlerCalled |-> FALSE,
          result |-> makeErrorResult(invocation,
             [type |-> "not_found",
              message |-> "Tool \"" \o invocation.toolName \o "\" is not registered",
              retryable |-> FALSE])]
  ELSE IF HasArgsSchema(invocation.toolName)
          /\ ~SafeParse(invocation.toolName, invocation.args).success
    THEN [settled |-> TRUE, handlerCalled |-> TRUE,
          result |-> makeErrorResult(invocation,
             ValidationError(SafeParse(invocation.toolName, invocation.args).error))]
  ELSE [settled |-> FALSE, handlerCalled |-> TRUE]

\* executeToolInvocation up to its await: the invocation is answered at once
\* (not_found, validation) or its handler has been called and is outstanding.
executeToolInvocationStart(invocation) ==
  IF invocation.toolName \notin Registry
    THEN [settled |-> TRUE, handlerCalled |-> FALSE,
          result |-> makeErrorResult(invocation,
             [type |-> "not_found",
              message |-> "Tool \"" \o invocation.toolName \o "\" is not registered",
              retryable |-> FALSE])]
  ELSE IF HasArgsSchema(invocation.toolName)
          /\ ~SafeParse(invocation.toolName, invocation.args).success
    THEN [settled |-> TRUE, handlerCalled |-> FALSE,
          result |-> makeErrorResult(invocation,
             ValidationError(SafeParse(invocation.toolName, invocation.args).error))]
  ELSE [settled |-> FALSE, handlerCalled |-> TRUE]

\* executeToolInvocation after its await: the handler has resolved or thrown.
executeToolInvocationFinish(invocation, host) ==
  LET out == HandlerOutcome(invocation.toolName, ArgsToUse(invocation), host) IN
  IF out.threw
    THEN makeErrorResult(invocation, ExecutionError(out.err))
    ELSE [callId |-> invocation.callId,
          toolName |-> invocation.toolName,
          ok |-> TRUE,
          data |-> out.data]

\* Promise.all collecting the values in the order the promises settle.
PromiseAllPlaceInCompletionOrder(slots, k, value) ==
  LET first == CHOOSE j \in 1..Len(slots) :
                 /\ ~slots[j].settled
                 /\ \A h \in 1..(j - 1) : slots[h].settled
  IN [slots EXCEPT ![first] = [settled |-> TRUE, handlerCalled |-> @.handlerCalled,
                               result |-> value]]

\* Promise.all: the value of the k-th promise becomes the k-th element.
PromiseAllPlace(slots, k, value) ==
  [slots EXCEPT ![k] = [settled |-> TRUE, handlerCalled |-> @.handlerCalled,
                        result |-> value]]

\* executeToolInvocations: invocations.map(executeToolInvocation), not yet joined.
executeToolInvocations(invocations) ==
  [k \in 1..Len(invocations) |-> executeToolInvocationStart(invocations[k])]

AllSettled(slots) == \A k \in 1..Len(slots) : slots[k].settled

\* The joined results cut off after the first failed one.
PromiseAllValueUntilFailure(slots) ==
  LET all == [k \in 1..Len(slots) |-> slots[k].result]
      failures == { k \in 1..Len(all) : ~all[k].ok }
  IN IF failures = {} THEN all
     ELSE SubSeq(all, 1, CHOOSE k \in failures : \A h \in failures : k <= h)

\* The joined results with the failed ones filtered out.
PromiseAllValueOkOnly(slots) ==
  SelectSeq([k \in 1..Len(slots) |-> slots[k].result], LAMBDA r : r.ok)

PromiseAllValue(slots) == [k \in 1..Len(slots) |-> slots[k].result]

----------------------------------------------------------------------------
(* A tool executor other than the default one (the ToolExecutor interface) *)

\* The executors tried: each answers a batch in its own way.
CustomExecutors == {"faithful", "drops_last", "adds_one", "reversed"}

CustomResult(invocation) ==
  [callId |-> invocation.callId, toolName |-> invocation.toolName, ok |-> TRUE]

CustomExecutorResults(invocations, variant) ==
  LET n == Len(invocations)
      all == [k \in 1..n |-> CustomResult(invocations[k])]
  IN CASE variant = "faithful" -> all
       [] variant = "drops_last" -> SubSeq(all, 1, n - 1)
       [] variant = "adds_one" ->
            Append(all, [callId |-> "extra", toolName |-> "echo", ok |-> TRUE])
       [] variant = "reversed" -> [k \in 1..n |-> all[n + 1 - k]]

----------------------------------------------------------------------------
(* src/agent/loop.ts: the helpers of runAgentLoop *)

\* const pushStep = (step) => { state.steps.push(step); ... }
pushStep(st, step) == [st EXCEPT !.steps = Append(@, step)]

\* statusForTerminationReason without its 'completed' case.
statusForTerminationReasonNoCompleted(reason) ==
  IF reason = "model_error" THEN "failed" ELSE "terminated"

statusForTerminationReason(reason) ==
  IF reason = "model_error" THEN "failed"
  ELSE IF reason = "completed" THEN "completed"
  ELSE "terminated"

\* options is << >> for undefined, or [error |-> ...].
terminateRun(st, reason, details, options) ==
  LET meta == getNextStepMeta(st)
      step == [id |-> meta.id, index |-> meta.index, type |-> "termination",
               reason |-> reason, details |-> details]
      st1 == pushStep(st, step)
      st2 == Assign(st1, "status", statusForTerminationReason(reason))
      st3 == Assign(st2, "terminationReason", reason)
  IN IF Has(options, "error") THEN Assign(st3, "error", options.error) ELSE st3

\* executeModelCall before its await: the step is built from the state as it is.
NewModelCallStep(st) ==
  LET meta == getNextStepMeta(st) IN
  [id |-> meta.id, index |-> meta.index, type |-> "model_call",
   inputMessages |-> st.messages]

\* The success exit with inputMessages sharing the array of state.messages:
\* the step shows the history as it is after the push.
commitModelCallSuccessSharedMessages(st, message, modelCallStep) ==
  LET st1 == [st EXCEPT !.messages = Append(@, message)]
      step == Assign(Assign([modelCallStep EXCEPT !.inputMessages = st1.messages],
                            "outputMessage", message),
                     "finishedAt", "set")
  IN [state |-> pushStep(st1, step),
      modelResult |-> [assistantMessage |-> message]]

commitModelCallSuccess(st, message, modelCallStep) ==
  LET step == Assign(Assign(modelCallStep, "outputMessage", message),
                     "finishedAt", "set")
      st1 == [st EXCEPT !.messages = Append(@, message)]
  IN [state |-> pushStep(st1, step),
      modelResult |-> [assistantMessage |-> message]]

\* A failure exit of executeModelCall that returns without pushStep.
recordModelCallErrorNotPushed(st, modelCallStep, error) ==
  [state |-> st, modelResult |-> [error |-> error]]

\* The failure exits of executeModelCall: the step is recorded with its error.
recordModelCallError(st, modelCallStep, error) ==
  LET step == Assign(Assign(modelCallStep, "error", error), "finishedAt", "set")
  IN [state |-> pushStep(st, step), modelResult |-> [error |-> error]]

\* executeModelCall after the for await has ended without a final chunk.
executeModelCallOnStreamEnd(st, modelCallStep) ==
  recordModelCallError(st, modelCallStep, "Stream ended without a final message")

\* executeModelCall after the for await was left on a chunk with done = true
\* and a message.
executeModelCallOnFinalChunk(st, modelCallStep, chunk) ==
  LET message == chunk.message IN
  IF message.role # "assistant"
    THEN recordModelCallError(st, modelCallStep,
           "Expected assistant message, got role \"" \o message.role \o "\"")
    ELSE commitModelCallSuccess(st, message, modelCallStep)

\* executeModelCall once llm.chat has resolved with a response.
executeModelCallOnMessage(st, modelCallStep, message) ==
  IF message.role # "assistant"
    THEN recordModelCallError(st, modelCallStep,
           "Expected assistant message, got role \"" \o message.role \o "\"")
    ELSE commitModelCallSuccess(st, message, modelCallStep)

\* executeModelCall's catch.
executeModelCallOnThrow(st, modelCallStep, err) ==
  recordModelCallError(st, modelCallStep,
                       toErrorMessage(err, "Unknown model error"))

ToolCallsOf(message) ==
  IF Has(message, "toolCalls") THEN message.toolCalls ELSE << >>

\* The model_error exit without the error handed to terminateRun.
TerminateOnModelErrorWithoutError(st, modelResult) ==
  terminateRun(st, "model_error",
               "Model call failed or returned non-assistant message.", << >>)

\* if (!modelResult.assistantMessage) { terminateRun(..., 'model_error', ...) }
TerminateOnModelError(st, modelResult) ==
  terminateRun(st, "model_error",
               "Model call failed or returned non-assistant message.",
               IF Has(modelResult, "error")
                 THEN [error |-> modelResult.error] ELSE << >>)

\* The completed exit without state.finalAnswer being set.
TerminateCompletedNoAnswer(st, assistantMessage) ==
  terminateRun(st, "completed",
               "Assistant returned a final answer without tool calls.", << >>)

\* The completed exit keeping a rewritten copy of the message: its role and
\* content, marked as final.
TerminateCompletedContentOnly(st, assistantMessage) ==
  terminateRun(Assign(st, "finalAnswer",
                      [role |-> assistantMessage.role,
                       content |-> assistantMessage.content,
                       final |-> TRUE]),
               "completed",
               "Assistant returned a final answer without tool calls.", << >>)

\* if (!toolCalls.length) { state.finalAnswer = ...; terminateRun(..., 'completed', ...) }
TerminateCompleted(st, assistantMessage) ==
  terminateRun(Assign(st, "finalAnswer", assistantMessage), "completed",
               "Assistant returned a final answer without tool calls.", << >>)

\* The budget check that also refuses a projected total equal to the budget.
ExceedsMaxToolCallsInclusive(st, toolCalls, cfg) ==
  /\ Has(cfg, "maxToolCalls")
  /\ st.totalToolCalls + Len(toolCalls) >= cfg.maxToolCalls

\* The budget check made on the calls already counted, not on the projected total.
ExceedsMaxToolCallsCountedOnly(st, toolCalls, cfg) ==
  /\ Has(cfg, "maxToolCalls")
  /\ st.totalToolCalls > cfg.maxToolCalls

\* The budget check made on this turn's calls alone.
ExceedsMaxToolCallsTurnOnly(st, toolCalls, cfg) ==
  /\ Has(cfg, "maxToolCalls")
  /\ Len(toolCalls) > cfg.maxToolCalls

\* projectedTotal > (config.maxToolCalls ?? Infinity)
ExceedsMaxToolCalls(st, toolCalls, cfg) ==
  /\ Has(cfg, "maxToolCalls")
  /\ st.totalToolCalls + Len(toolCalls) > cfg.maxToolCalls

\* The budget exit handing its details to terminateRun as the error too.
TerminateBudgetExceededWithError(st, toolCalls, cfg) ==
  LET details == "Max tool calls exceeded: "
                   \o ToString(st.totalToolCalls + Len(toolCalls))
                   \o " > " \o ToString(cfg.maxToolCalls)
  IN terminateRun(st, "max_steps_reached", details, [error |-> details])

TerminateBudgetExceeded(st, toolCalls, cfg) ==
  terminateRun(st, "max_steps_reached",
               "Max tool calls exceeded: "
                 \o ToString(st.totalToolCalls + Len(toolCalls))
                 \o " > " \o ToString(cfg.maxToolCalls),
               << >>)

\* The tool_invocation step pushed before toolExecutor.execute is called.
RecordInvocationStep(st, invocations) ==
  LET invMeta == getNextStepMeta(st) IN
  pushStep(st, [id |-> invMeta.id, index |-> invMeta.index,
                type |-> "tool_invocation", invocations |-> invocations])

\* The loop body with the break after the completed exit missing: the turn
\* goes on to the dispatch of its (empty) list of requested actions.
LoopAfterModelCallNoBreakOnCompleted(st, modelResult, cfg, sIndex) ==
  IF ~Has(modelResult, "assistantMessage")
    THEN [next |-> "break", state |-> TerminateOnModelError(st, modelResult)]
  ELSE
    LET assistantMessage == modelResult.assistantMessage
        toolCalls == ToolCallsOf(assistantMessage)
        st1 == IF Len(toolCalls) = 0
                 THEN TerminateCompleted(st, assistantMessage) ELSE st
    IN
    IF ExceedsMaxToolCalls(st1, toolCalls, cfg)
      THEN [next |-> "break",
            state |-> TerminateBudgetExceeded(st1, toolCalls, cfg)]
    ELSE
      LET invocations == toolCallsToInvocations(toolCalls, sIndex)
      IN [next |-> "execute",
          state |-> RecordInvocationStep(st1, invocations),
          invocations |-> invocations]

\* The loop body from the return of executeModelCall to toolExecutor.execute.
LoopAfterModelCall(st, modelResult, cfg, sIndex) ==
  IF ~Has(modelResult, "assistantMessage")
    THEN [next |-> "break", state |-> TerminateOnModelError(st, modelResult)]
  ELSE
    LET assistantMessage == modelResult.assistantMessage
        toolCalls == ToolCallsOf(assistantMessage)
    IN
    IF Len(toolCalls) = 0
      THEN [next |-> "break", state |-> TerminateCompleted(st, assistantMessage)]
    ELSE IF ExceedsMaxToolCalls(st, toolCalls, cfg)
      THEN [next |-> "break",
            state |-> TerminateBudgetExceeded(st, toolCalls, cfg)]
    ELSE
      LET invocations == toolCallsToInvocations(toolCalls, sIndex)
      IN [next |-> "execute",
          state |-> RecordInvocationStep(st, invocations),
          invocations |-> invocations]

\* The counter advanced by one per batch.
CountToolResultsPerBatch(st, toolResults) ==
  [st EXCEPT !.totalToolCalls = @ + 1]

\* state.totalToolCalls += toolResults.length
CountToolResults(st, toolResults) ==
  [st EXCEPT !.totalToolCalls = @ + Len(toolResults)]

\* The results counted and fed back without a tool_result step.
RecordResultStepSkipped(st, toolResults) == st

\* The tool_result step pushed after toolExecutor.execute has returned.
RecordResultStep(st, toolResults) ==
  LET resMeta == getNextStepMeta(st) IN
  pushStep(st, [id |-> resMeta.id, index |-> resMeta.index,
                type |-> "tool_result", results |-> toolResults])

\* The last-iteration test off by one.
IsLastIterationOffByOne(iter, cfg) == iter = cfg.maxSteps

\* if (i === config.maxSteps - 1)
IsLastIteration(iter, cfg) == iter = cfg.maxSteps - 1

MaxStepsDetails == "Reached maxSteps without explicit completion."

\* The loop body ending the run with tool_error when a result has failed.
LoopAfterToolResultsStopsOnFailure(st, toolResults, cfg, iter) ==
  LET st1 == CountToolResults(st, toolResults)
      st2 == RecordResultStep(st1, toolResults)
      st3 == appendToolResultMessages(st2, toolResults)
  IN IF \E k \in 1..Len(toolResults) : ~toolResults[k].ok
       THEN [next |-> "break",
             state |-> terminateRun(st3, "tool_error", "A tool failed.", << >>)]
       ELSE IF IsLastIteration(iter, cfg)
         THEN [next |-> "break",
               state |-> terminateRun(st3, "max_steps_reached", MaxStepsDetails, << >>)]
         ELSE [next |-> "continue", state |-> st3]

\* The loop body from the return of toolExecutor.execute to the end of the iteration.
LoopAfterToolResults(st, toolResults, cfg, iter) ==
  LET st1 == CountToolResults(st, toolResults)
      st2 == RecordResultStep(st1, toolResults)
      st3 == appendToolResultMessages(st2, toolResults)
  IN IF IsLastIteration(iter, cfg)
       THEN [next |-> "break",
             state |-> terminateRun(st3, "max_steps_reached", MaxStepsDetails, << >>)]
       ELSE [next |-> "continue", state |-> st3]

\* A catch around the loop that files the exception under a reason of its own.
OuterCatchToolError(st, err) ==
  LET message == toErrorMessage(err, "Unknown error") IN
  terminateRun(st, "tool_error", message, [error |-> message])

\* The catch around the loop.
OuterCatch(st, err) ==
  LET message == toErrorMessage(err, "Unknown error") IN
  terminateRun(st, "model_error", message, [error |-> message])

----------------------------------------------------------------------------
(* runAgentLoop as a state machine *)

Configs ==
  { [maxSteps |-> m] : m \in 0..MaxSteps }
  \cup { [maxSteps |-> m, maxToolCalls |-> b] : m \in 0..MaxSteps, b \in 0..MaxBudget }

\* A RunObserver: onRunFinished always, onStreamChunk only if it declares one.
StreamingObserver == [onStreamChunk |-> TRUE]
PlainObserver == [onStreamChunk |-> FALSE]

\* The runObservers lists a run is started with.
ObserverLists ==
  { << >>, <<StreamingObserver, PlainObserver, StreamingObserver>> }

\* The configurations of the streamed runs that observers are attached to:
\* those are followed for one iteration less than the other runs.
StreamObserverConfigs == { c \in Configs : c.maxSteps < MaxSteps }

\* chatStream: whether llm.chatStream exists; toolExecutor: which executor runs;
\* host: the host the run is on, with its Error.stackTraceLimit, install
\* directory and entry point, which only the handlers of the default executor
\* come to use. Observers are attached to the runs of the default executor;
\* the hosts are told apart on its runs without observers and without
\* stream.
ParamSpace ==
  [config : Configs, chatStream : {FALSE}, toolExecutor : {"default"},
   runObservers : {<< >>}, host : Hosts]
  \cup [config : Configs, chatStream : {TRUE}, toolExecutor : {"default"},
        runObservers : {<< >>}, host : {AnyHost}]
  \cup [config : Configs, chatStream : {FALSE}, toolExecutor : {"default"},
        runObservers : ObserverLists, host : {AnyHost}]
  \cup [config : StreamObserverConfigs, chatStream : {TRUE},
        toolExecutor : {"default"}, runObservers : ObserverLists,
        host : {AnyHost}]
  \cup [config : Configs, chatStream : BOOLEAN, toolExecutor : CustomExecutors,
        runObservers : {<< >>}, host : {AnyHost}]

\* The number of invocations recorded in the tool_invocation steps of a history.
RECURSIVE InvocationsRecorded(_)
InvocationsRecorded(steps) ==
  IF steps = << >> THEN 0
  ELSE (IF Head(steps).type = "tool_invocation"
          THEN Len(Head(steps).invocations) ELSE 0)
       + InvocationsRecorded(Tail(steps))

\* Whether message keeps the actions requested over the run within MaxRequested.
AnswerAllowed(st, message) ==
  InvocationsRecorded(st.steps) + Len(ToolCallsOf(message)) <= MaxRequested

\* The messages the model may answer with, given what it has requested so far.
ModelAnswers(st) == { m \in ModelMessages : AnswerAllowed(st, m) }

NoCall == [active |-> FALSE]
NoBatch == [active |-> FALSE]
NoResult == << >>
NotThrown == << >>

\* What each observer has done with what it was handed: the content deltas it
\* has written on the line of output it is on, the lines it has ended, and the
\* calls of its onRunFinished.
NothingObserved(observers) ==
  [k \in 1..Len(observers) |-> [deltas |-> 0, lines |-> 0, finished |-> 0]]

\* The observers that declare onStreamChunk.
ChunkHandlers(observers) ==
  { k \in 1..Len(observers) : observers[k].onStreamChunk }

\* The chunks of a stream that do not end the for await: a piece of content,
\* and a chunk that says done without a message. And the one that does.
PartialChunks == { [contentDelta |-> "an", done |-> FALSE], [done |-> TRUE] }
FinalChunk(message) == [done |-> TRUE, message |-> message]

\* if (chunk.done === true && chunk.message != null)
IsFinalChunk(chunk) == chunk.done /\ Has(chunk, "message")

\* ConsoleRunObserver.onStreamChunk: the content delta of the chunk, if it has
\* one, is written; if the chunk says done, with a message or without, the
\* line is ended.
ObserveChunk(seen, chunk) ==
  LET wrote == IF Has(chunk, "contentDelta")
                 THEN [seen EXCEPT !.deltas = @ + 1] ELSE seen
  IN IF chunk.done THEN [wrote EXCEPT !.deltas = 0, !.lines = @ + 1] ELSE wrote

\* for (const o of runObservers) { o.onStreamChunk?.(chunk); }
\* thrower is the observer whose handler throws, 0 if none does: the
\* observers after it are not reached.
onStreamChunk(obs, observers, chunk, thrower) ==
  [k \in 1..Len(obs) |->
     IF k \in ChunkHandlers(observers) /\ (thrower = 0 \/ k <= thrower)
       THEN ObserveChunk(obs[k], chunk) ELSE obs[k]]

Init ==
  /\ params \in ParamSpace
  /\ state = createInitialState(SystemMessage, UserMessage)
  /\ pc = "created"
  /\ i = 0
  /\ stepIndex = 0
  /\ call = NoCall
  /\ batch = NoBatch
  /\ result = NoResult
  /\ thrown = NotThrown
  /\ observed = NothingObserved(params.runObservers)
  /\ modelCalls = 0
  /\ executorCalls = 0

\* observer.onRunFinished(result) is called for observer k.
CallOnRunFinished(obs, k) == [obs EXCEPT ![k].finished = @ + 1]

\* notifyRunFinished(observers, result) up to its first await: the first
\* observer, if there is one, is called.
notifyRunFinished(obs) ==
  IF obs = << >> THEN obs ELSE CallOnRunFinished(obs, 1)

\* After the loop: const result = stateToRunResult(state); notifyRunFinished(...)
\* is called and runAgentLoop awaits it.
ExitLoop(st) ==
  /\ state' = st
  /\ result' = stateToRunResult(st)
  /\ observed' = notifyRunFinished(observed)
  /\ pc' = "notify"
  /\ call' = NoCall
  /\ batch' = NoBatch

\* for (let i = 0; i < config.maxSteps; i++)
LoopConditionInclusive(iter, cfg) == iter <= cfg.maxSteps

LoopCondition(iter, cfg) == iter < cfg.maxSteps

\* The loop head with counter iter, up to the await inside executeModelCall.
EnterIteration(st, iter) ==
  /\ i' = iter
  /\ IF LoopCondition(iter, params.config)
       THEN /\ state' = st
            /\ stepIndex' = Len(st.steps)
            /\ call' = [active |-> TRUE, step |-> NewModelCallStep(st), chunks |-> 0]
            /\ batch' = NoBatch
            /\ modelCalls' = modelCalls + 1
            /\ pc' = "await_model"
            /\ UNCHANGED <<result, observed>>
       ELSE /\ ExitLoop(st)
            /\ UNCHANGED <<stepIndex, modelCalls>>

\* runAgentLoop without state.status = 'running'.
RunStartStatusNotSet ==
  /\ pc = "created"
  /\ EnterIteration(state, 0)
  /\ UNCHANGED <<params, thrown, executorCalls>>

\* runAgentLoop from its start to the first await.
RunStart ==
  /\ pc = "created"
  /\ EnterIteration(Assign(state, "status", "running"), 0)
  /\ UNCHANGED <<params, thrown, executorCalls>>

\* From the resumption after executeModelCall to the next await or to the
\* loop's exit.
ContinueAfterModelCall(res) ==
  LET r == LoopAfterModelCall(res.state, res.modelResult, params.config, stepIndex)
  IN IF r.next = "break"
       THEN /\ ExitLoop(r.state)
            /\ UNCHANGED <<params, i, stepIndex, thrown, modelCalls, executorCalls>>
       ELSE /\ state' = r.state
            /\ pc' = "await_tools"
            /\ call' = NoCall
            /\ batch' = [active |-> TRUE,
                         invocations |-> r.invocations,
                         slots |-> IF params.toolExecutor = "default"
                                     THEN executeToolInvocations(r.invocations)
                                     ELSE << >>]
            /\ executorCalls' = executorCalls + 1
            /\ UNCHANGED <<params, i, stepIndex, result, thrown, observed,
                           modelCalls>>

\* executeModelCall returns: the promise runAgentLoop awaits is resolved with
\* modelResult, and runAgentLoop goes on in a later job of the event loop. Until
\* then the state is as executeModelCall has left it.
ReturnFromModelCall(res) ==
  /\ state' = res.state
  /\ call' = [active |-> FALSE, modelResult |-> res.modelResult]
  /\ pc' = "model_returned"
  /\ UNCHANGED <<params, i, stepIndex, batch, result, thrown,
                 modelCalls, executorCalls>>

\* const modelResult = await executeModelCall(...): runAgentLoop goes on with
\* the result of the model call.
ResumeAfterModelCall ==
  /\ pc = "model_returned"
  /\ ContinueAfterModelCall([state |-> state, modelResult |-> call.modelResult])

\* await llm.chat(chatParams) resolves with a response carrying message.
ChatResolvesWith(message) ==
  /\ pc = "await_model"
  /\ ~params.chatStream
  /\ AnswerAllowed(state, message)
  /\ ReturnFromModelCall(executeModelCallOnMessage(state, call.step, message))
  /\ UNCHANGED observed

ChatResolves ==
  /\ pc = "await_model"
  /\ ~params.chatStream
  /\ \E message \in ModelAnswers(state) : ChatResolvesWith(message)

\* await llm.chat(chatParams) rejects with err.
ChatRejectsWith(err) ==
  /\ pc = "await_model"
  /\ ~params.chatStream
  /\ ReturnFromModelCall(executeModelCallOnThrow(state, call.step, err))
  /\ UNCHANGED observed

ChatRejects == \E err \in ThrownValues : ChatRejectsWith(err)

\* The for await has been left, by break or by an exception of its body, and
\* the return() of the stream is awaited. chatStream is an async generator, as
\* the repository's client makes it, so the stream has a return().
StreamClosing == Has(call, "closing")

\* The stream yields a chunk that is not final: it is handed to the observers
\* and the for await goes on.
StreamChunkWith(chunk) ==
  /\ pc = "await_model"
  /\ params.chatStream
  /\ ~StreamClosing
  /\ call.chunks < MaxChunks
  /\ call' = [call EXCEPT !.chunks = @ + 1]
  /\ observed' = onStreamChunk(observed, params.runObservers, chunk, 0)
  /\ UNCHANGED <<params, state, pc, i, stepIndex, batch, result, thrown,
                 modelCalls, executorCalls>>

StreamChunk == \E chunk \in PartialChunks : StreamChunkWith(chunk)

\* The stream yields a chunk with done = true and message: it is handed to the
\* observers, message is taken, and the break calls the stream's return() and
\* awaits it.
StreamFinalChunkWith(message) ==
  /\ pc = "await_model"
  /\ params.chatStream
  /\ ~StreamClosing
  /\ AnswerAllowed(state, message)
  /\ observed' = onStreamChunk(observed, params.runObservers, FinalChunk(message), 0)
  /\ call' = Assign(call, "closing", [message |-> message])
  /\ UNCHANGED <<params, state, pc, i, stepIndex, batch, result, thrown,
                 modelCalls, executorCalls>>

StreamFinalChunk ==
  /\ pc = "await_model"
  /\ params.chatStream
  /\ ~StreamClosing
  /\ \E message \in ModelAnswers(state) : StreamFinalChunkWith(message)

\* The stream yields chunk and the onStreamChunk of observer thrower throws
\* err: the observers after it are not reached, the for await is left with
\* err, and the stream's return() is called and awaited before err goes on to
\* the catch of executeModelCall.
OnStreamChunkThrowsWith(chunk, thrower, err) ==
  /\ pc = "await_model"
  /\ params.chatStream
  /\ ~StreamClosing
  /\ IsFinalChunk(chunk) \/ call.chunks < MaxChunks
  /\ IsFinalChunk(chunk) => AnswerAllowed(state, chunk.message)
  /\ thrower \in ChunkHandlers(params.runObservers)
  /\ observed' = onStreamChunk(observed, params.runObservers, chunk, thrower)
  /\ call' = Assign(call, "closing", [thrown |-> err])
  /\ UNCHANGED <<params, state, pc, i, stepIndex, batch, result, thrown,
                 modelCalls, executorCalls>>

\* What the observers see of a final chunk does not depend on its message.
OnStreamChunkThrows ==
  /\ pc = "await_model"
  /\ params.chatStream
  /\ ~StreamClosing
  /\ \E chunk \in PartialChunks \cup { FinalChunk(FinalAnswerMessage) },
        thrower \in ChunkHandlers(params.runObservers),
        err \in ThrownValues :
       OnStreamChunkThrowsWith(chunk, thrower, err)

\* The return() of the stream resolving with no catch in executeModelCall: an
\* exception of the body of the for await reaches the catch around the loop.
StreamReturnResolvesUncaught ==
  /\ pc = "await_model"
  /\ StreamClosing
  /\ IF Has(call.closing, "message")
       THEN /\ ReturnFromModelCall(
                 executeModelCallOnFinalChunk(state, call.step,
                                              FinalChunk(call.closing.message)))
            /\ UNCHANGED observed
       ELSE /\ ExitLoop(OuterCatch(state, call.closing.thrown))
            /\ UNCHANGED <<params, i, stepIndex, thrown, modelCalls, executorCalls>>

\* The awaited return() of the stream resolves. After a break executeModelCall
\* goes on behind the for await with the message taken; after an exception of
\* the body that exception reaches the catch.
StreamReturnResolves ==
  /\ pc = "await_model"
  /\ StreamClosing
  /\ ReturnFromModelCall(
       IF Has(call.closing, "message")
         THEN executeModelCallOnFinalChunk(state, call.step,
                                           FinalChunk(call.closing.message))
         ELSE executeModelCallOnThrow(state, call.step, call.closing.thrown))
  /\ UNCHANGED observed

\* The awaited return() of the stream rejects with err. After a break err
\* reaches the catch and the message taken is dropped; after an exception of
\* the body that exception reaches the catch and err is lost.
StreamReturnRejectsWith(err) ==
  /\ pc = "await_model"
  /\ StreamClosing
  /\ ReturnFromModelCall(
       executeModelCallOnThrow(state, call.step,
         IF Has(call.closing, "thrown") THEN call.closing.thrown ELSE err))
  /\ UNCHANGED observed

StreamReturnRejects == \E err \in ThrownValues : StreamReturnRejectsWith(err)

\* The stream ends without a final chunk.
StreamEnds ==
  /\ pc = "await_model"
  /\ params.chatStream
  /\ ~StreamClosing
  /\ ReturnFromModelCall(executeModelCallOnStreamEnd(state, call.step))
  /\ UNCHANGED observed

\* The stream throws err.
StreamThrowsWith(err) ==
  /\ pc = "await_model"
  /\ params.chatStream
  /\ ~StreamClosing
  /\ ReturnFromModelCall(executeModelCallOnThrow(state, call.step, err))
  /\ UNCHANGED observed

StreamThrows == \E err \in ThrownValues : StreamThrowsWith(err)

\* From the return of toolExecutor.execute to the next await or to the loop's exit.
ContinueAfterToolResults(toolResults) ==
  LET r == LoopAfterToolResults(state, toolResults, params.config, i)
  IN IF r.next = "break"
       THEN /\ ExitLoop(r.state)
            /\ UNCHANGED <<params, i, stepIndex, thrown, modelCalls, executorCalls>>
       ELSE /\ EnterIteration(r.state, i + 1)
            /\ UNCHANGED <<params, thrown, executorCalls>>

\* The handler of one outstanding invocation of the batch resolves or throws.
HandlerSettles ==
  /\ pc = "await_tools"
  /\ params.toolExecutor = "default"
  /\ \E k \in 1..Len(batch.slots) :
       /\ ~batch.slots[k].settled
       /\ batch' = [batch EXCEPT !.slots =
            PromiseAllPlace(@, k, executeToolInvocationFinish(batch.invocations[k],
                                                params.host))]
  /\ UNCHANGED <<params, state, pc, i, stepIndex, call, result, thrown, observed,
                 modelCalls, executorCalls>>

\* The join resolving as soon as one invocation is answered, with the results
\* that are there.
ExecuteResolvesOnFirstSettled ==
  /\ pc = "await_tools"
  /\ params.toolExecutor = "default"
  /\ \E k \in 1..Len(batch.slots) : batch.slots[k].settled
  /\ LET settled == SelectSeq(batch.slots, LAMBDA s : s.settled)
     IN ContinueAfterToolResults([k \in 1..Len(settled) |-> settled[k].result])

\* Promise.all of the default executor resolves: every invocation is answered.
ExecuteResolves ==
  /\ pc = "await_tools"
  /\ params.toolExecutor = "default"
  /\ AllSettled(batch.slots)
  /\ ContinueAfterToolResults(PromiseAllValue(batch.slots))

\* A custom executor resolves with a result list of its own making.
CustomExecuteResolves ==
  /\ pc = "await_tools"
  /\ params.toolExecutor \in CustomExecutors
  /\ ContinueAfterToolResults(
       CustomExecutorResults(batch.invocations, params.toolExecutor))

\* A custom executor rejects with err: it reaches the catch around the loop.
CustomExecuteRejectsWith(err) ==
  /\ pc = "await_tools"
  /\ params.toolExecutor \in CustomExecutors
  /\ ExitLoop(OuterCatch(state, err))
  /\ UNCHANGED <<params, i, stepIndex, thrown, modelCalls, executorCalls>>

CustomExecuteRejects == \E err \in ThrownValues : CustomExecuteRejectsWith(err)

\* The observers whose onRunFinished has been called.
Notified == { k \in 1..Len(observed) : observed[k].finished > 0 }

\* The observer whose onRunFinished was called last: notifyRunFinished awaits
\* what it returned.
PendingObserver == Cardinality(Notified)

\* A rejection of the notification that the catch around the loop receives:
\* the run is terminated once more and its result returned.
OnRunFinishedRejectsCaughtWith(err) ==
  /\ pc = "notify"
  /\ PendingObserver >= 1
  /\ state' = OuterCatch(state, err)
  /\ result' = stateToRunResult(OuterCatch(state, err))
  /\ pc' = "returned"
  /\ UNCHANGED <<params, i, stepIndex, call, batch, thrown, observed,
                 modelCalls, executorCalls>>

\* await Promise.resolve(observer.onRunFinished(result)) resolves: the next
\* observer is called, or, after the last one, the awaited notifyRunFinished
\* resolves and runAgentLoop returns the result.
OnRunFinishedResolves ==
  /\ pc = "notify"
  /\ PendingObserver >= 1
  /\ IF PendingObserver < Len(params.runObservers)
       THEN /\ observed' = CallOnRunFinished(observed, PendingObserver + 1)
            /\ pc' = "notify"
       ELSE /\ observed' = observed
            /\ pc' = "returned"
  /\ UNCHANGED <<params, state, i, stepIndex, call, batch, result, thrown,
                 modelCalls, executorCalls>>

\* The onRunFinished called last has thrown err, or the promise it returned
\* rejects with err: the awaited notifyRunFinished rejects with err, nothing
\* around the await catches it, and runAgentLoop rejects with err.
OnRunFinishedRejectsWith(err) ==
  /\ pc = "notify"
  /\ PendingObserver >= 1
  /\ thrown' = err
  /\ pc' = "rejected"
  /\ UNCHANGED <<params, state, i, stepIndex, call, batch, result, observed,
                 modelCalls, executorCalls>>

OnRunFinishedRejects == \E err \in ThrownValues : OnRunFinishedRejectsWith(err)

\* There is no observer: the awaited notifyRunFinished resolves and
\* runAgentLoop returns the result.
NotifyRunFinishedResolves ==
  /\ pc = "notify"
  /\ params.runObservers = << >>
  /\ pc' = "returned"
  /\ UNCHANGED <<params, state, i, stepIndex, call, batch, result, thrown,
                 observed, modelCalls, executorCalls>>

Next ==
  \/ RunStart
  \/ ChatResolves
  \/ ChatRejects
  \/ StreamChunk
  \/ StreamFinalChunk
  \/ OnStreamChunkThrows
  \/ StreamEnds
  \/ StreamThrows
  \/ StreamReturnResolves
  \/ StreamReturnRejects
  \/ ResumeAfterModelCall
  \/ HandlerSettles
  \/ ExecuteResolves
  \/ CustomExecuteResolves
  \/ CustomExecuteRejects
  \/ OnRunFinishedResolves
  \/ OnRunFinishedRejects
  \/ NotifyRunFinishedResolves

Spec == Init /\ [][Next]_vars

\* The turns of an outstanding model call: the awaited llm.chat settles, the
\* stream consumed by for await yields, ends or throws, or its awaited return()
\* settles.
ModelCallProceeds ==
  \/ ChatResolves
  \/ ChatRejects
  \/ StreamChunk
  \/ StreamFinalChunk
  \/ OnStreamChunkThrows
  \/ StreamEnds
  \/ StreamThrows
  \/ StreamReturnResolves
  \/ StreamReturnRejects

\* The turns of an outstanding tool batch: a handler settles, or the awaited
\* toolExecutor.execute does.
ToolBatchProceeds ==
  \/ HandlerSettles
  \/ ExecuteResolves
  \/ CustomExecuteResolves
  \/ CustomExecuteRejects

\* The turns of the notification: the awaited onRunFinished settles, or, with
\* no observer, the awaited notifyRunFinished does.
NotificationProceeds ==
  \/ OnRunFinishedResolves
  \/ OnRunFinishedRejects
  \/ NotifyRunFinishedResolves

\* Every awaited promise settles: the event loop runs each continuation that
\* is ready, every model call and every tool batch returns or fails, the
\* return() of a stream that is left resolves or rejects, and every observer's
\* onRunFinished returns or throws.
FairSpec ==
  /\ Spec
  /\ WF_vars(RunStart)
  /\ WF_vars(ModelCallProceeds)
  /\ WF_vars(ResumeAfterModelCall)
  /\ WF_vars(ToolBatchProceeds)
  /\ WF_vars(NotificationProceeds)

----------------------------------------------------------------------------
(* Properties of the run *)

TerminalStatuses == {"completed", "failed", "terminated"}

TerminationPositions(steps) ==
  { k \in 1..Len(steps) : steps[k].type = "termination" }

LastStep(steps) == steps[Len(steps)]

\* The turn in which executeModelCall returns its result to the loop that
\* awaits it.
ModelCallReturns == pc = "await_model" /\ pc' = "model_returned"

\* The turn in which the loop goes on with the result of the model call.
LoopResumes == pc = "model_returned" /\ pc' # "model_returned"

\* The loop goes on with a model call that has failed.
LoopResumesOnFailure ==
  LoopResumes /\ ~Has(call.modelResult, "assistantMessage")

\* The loop goes on with an assistant message.
LoopResumesOnMessage ==
  LoopResumes /\ Has(call.modelResult, "assistantMessage")

\* The sum of the lengths of the result lists of the tool_result steps.
RECURSIVE ResultsRecorded(_)
ResultsRecorded(steps) ==
  IF steps = << >> THEN 0
  ELSE (IF Head(steps).type = "tool_result" THEN Len(Head(steps).results) ELSE 0)
       + ResultsRecorded(Tail(steps))

\* The run was ended by the tool-call budget check.
EndedByBudget(steps) ==
  /\ Len(steps) >= 1
  /\ LastStep(steps).type = "termination"
  /\ LastStep(steps).reason = "max_steps_reached"
  /\ LastStep(steps).details # MaxStepsDetails

\* Every tool_result step follows a tool_invocation step of the same length.
OneResultPerInvocation(steps) ==
  \A k \in 1..Len(steps) :
    steps[k].type = "tool_result" =>
      /\ k > 1
      /\ steps[k - 1].type = "tool_invocation"
      /\ Len(steps[k].results) = Len(steps[k - 1].invocations)

\* C1: at no point does the history hold more than one termination step or a
\* step after it, and a run with maxSteps >= 1 that has returned has exactly
\* one termination step, the last element of the steps of its result.
C1_SingleTermination ==
  /\ Cardinality(TerminationPositions(state.steps)) <= 1
  /\ TerminationPositions(state.steps) \subseteq {Len(state.steps)}
  /\ (pc = "returned" /\ params.config.maxSteps >= 1) =>
       /\ result.steps = state.steps
       /\ TerminationPositions(result.steps) = {Len(result.steps)}

\* A run that the catch around the loop ended has returned.
C1_Witness ==
  /\ pc = "returned"
  /\ params.config.maxSteps >= 1
  /\ state.status = "failed"
  /\ Len(state.steps) >= 5
  /\ state.steps[Len(state.steps) - 1].type = "tool_invocation"
  /\ LastStep(state.steps).type = "termination"

C2_StatusStep ==
  /\ state'.status # state.status =>
       \/ state.status = "idle" /\ state'.status = "running"
       \/ state.status = "running" /\ state'.status \in TerminalStatuses
  /\ modelCalls' >= 1 => state'.status # "idle"

\* C2: the status is idle when the state is created, is running before the
\* first model call, and changes only from idle to running and from running
\* to completed, failed or terminated; a terminal status never changes.
C2_StatusForward ==
  /\ [](pc = "created" => state.status = "idle")
  /\ [][C2_StatusStep]_vars

\* A run has gone from idle through running to a terminal status.
C2_Witness ==
  /\ pc = "returned"
  /\ modelCalls >= 2
  /\ state.status = "terminated"

\* C3: in the result of the run, finalAnswer is defined exactly when status
\* is completed and terminationReason is completed.
C3_FinalAnswerIffCompleted ==
  result # NoResult =>
    (Has(result, "finalAnswer")
       <=> /\ result.status = "completed"
           /\ Has(result, "terminationReason")
           /\ result.terminationReason = "completed")

\* A run that answered after a tool round has returned its final answer.
C3_Witness ==
  /\ pc = "returned"
  /\ Has(result, "finalAnswer")
  /\ result.status = "completed"
  /\ result.totalToolCalls >= 1

\* C4: at every point the k-th step of the history (from 0) has index k and
\* id "step-k".
C4_StepDensity ==
  \A k \in 1..Len(state.steps) :
    /\ state.steps[k].index = k - 1
    /\ state.steps[k].id = "step-" \o ToString(k - 1)

\* A model_call step whose meta was taken before the call was awaited has
\* been pushed behind the steps of an earlier tool round.
C4_Witness ==
  \E k \in 4..Len(state.steps) :
    /\ state.steps[k].type = "model_call"
    /\ state.steps[k].index = 3

C5_CounterStep ==
  /\ state'.totalToolCalls >= state.totalToolCalls
  /\ state'.totalToolCalls # state.totalToolCalls =>
       /\ pc = "await_tools"
       /\ Len(state'.steps) > Len(state.steps)
       /\ state'.steps[Len(state.steps) + 1].type = "tool_result"
       /\ state'.totalToolCalls - state.totalToolCalls
            = Len(state'.steps[Len(state.steps) + 1].results)

\* C5: totalToolCalls starts at 0, never decreases, always equals the sum of
\* the lengths of the result lists of the tool_result steps, and changes only
\* when a tool batch returns, by the number of results received.
C5_TotalToolCalls ==
  /\ [](pc = "created" => state.totalToolCalls = 0)
  /\ [](state.totalToolCalls = ResultsRecorded(state.steps))
  /\ [][C5_CounterStep]_vars

\* Two tool rounds, one of them of two results, have been counted.
C5_Witness ==
  /\ pc = "returned"
  /\ params.toolExecutor = "default"
  /\ state.totalToolCalls = 3
  /\ \E k \in 1..Len(state.steps) :
       state.steps[k].type = "tool_result" /\ Len(state.steps[k].results) = 2

C6_BudgetStep ==
  LET n == Len(state.steps)
      turn == state.steps[n]
      requested == Len(ToolCallsOf(turn.outputMessage))
  IN (/\ pc = "model_returned"
      /\ pc' # "model_returned"
      /\ Has(turn, "outputMessage")
      /\ requested >= 1)
     =>
     IF /\ Has(params.config, "maxToolCalls")
        /\ state.totalToolCalls + requested > params.config.maxToolCalls
       THEN /\ executorCalls' = executorCalls
            /\ ~batch'.active
            /\ state'.totalToolCalls = state.totalToolCalls
            /\ state'.status = "terminated"
            /\ state'.terminationReason = "max_steps_reached"
            /\ pc' = "notify"
            /\ \A k \in (n + 1)..Len(state'.steps) :
                 state'.steps[k].type # "tool_result"
       ELSE /\ executorCalls' = executorCalls + 1
            /\ batch'.active
            /\ Len(batch'.invocations) = requested

\* C6: an assistant turn whose requested actions would take totalToolCalls
\* over maxToolCalls makes no call of the tool executor, appends no
\* tool_result step, leaves totalToolCalls as it is and ends the run
\* terminated with max_steps_reached; any other turn with requested actions
\* hands all of them to the executor in one call.
C6_BudgetEnforcement == [][C6_BudgetStep]_vars

\* A later turn of a run went over the budget that an earlier turn had used.
C6_Witness ==
  /\ pc = "returned"
  /\ EndedByBudget(state.steps)
  /\ state.status = "terminated"
  /\ state.totalToolCalls >= 1
  /\ state.totalToolCalls <= params.config.maxToolCalls

\* C7: a run ended by the budget check has recorded a tool_invocation step
\* with the turn's translated invocations before the termination step: its
\* history ends with model_call, tool_invocation, termination.
C7_InvocationStepBeforeBudgetTermination ==
  (pc \in {"notify", "returned"} /\ EndedByBudget(state.steps)) =>
    LET n == Len(state.steps) IN
    /\ n >= 3
    /\ state.steps[n - 2].type = "model_call"
    /\ state.steps[n - 1].type = "tool_invocation"
    /\ Len(state.steps[n - 1].invocations)
         = Len(ToolCallsOf(state.steps[n - 2].outputMessage))

\* C8: with maxToolCalls configured and one result per invocation in every
\* batch so far, totalToolCalls never exceeds maxToolCalls.
C8_BudgetNeverExceeded ==
  (Has(params.config, "maxToolCalls") /\ OneResultPerInvocation(state.steps))
    => state.totalToolCalls <= params.config.maxToolCalls

\* The budget was used up over two rounds and the next request was refused.
C8_Witness ==
  /\ Has(params.config, "maxToolCalls")
  /\ params.config.maxToolCalls = 2
  /\ state.totalToolCalls = 2
  /\ OneResultPerInvocation(state.steps)
  /\ Cardinality({ k \in 1..Len(state.steps) :
                     state.steps[k].type = "tool_result" }) = 2

\* C9: with the default executor every tool_result step comes right after a
\* tool_invocation step and lists as many results, with the same callIds
\* position by position.
C9_ResultCorrespondence ==
  params.toolExecutor = "default" =>
    \A k \in 1..Len(state.steps) :
      state.steps[k].type = "tool_result" =>
        /\ k > 1
        /\ state.steps[k - 1].type = "tool_invocation"
        /\ Len(state.steps[k].results) = Len(state.steps[k - 1].invocations)
        /\ \A j \in 1..Len(state.steps[k].results) :
             state.steps[k].results[j].callId
               = state.steps[k - 1].invocations[j].callId

\* A batch of two invocations with different callIds, one of which failed,
\* has been recorded.
C9_Witness ==
  /\ params.toolExecutor = "default"
  /\ \E k \in 1..Len(state.steps) :
       /\ state.steps[k].type = "tool_result"
       /\ Len(state.steps[k].results) = 2
       /\ state.steps[k].results[1].callId # state.steps[k].results[2].callId
       /\ ~state.steps[k].results[1].ok
       /\ state.steps[k].results[2].ok

\* C10: while a batch of the default executor is outstanding every invocation
\* has been issued (answered at once or its handler called) whatever the
\* others have done, and every answer stands at the position of its
\* invocation with that invocation's callId and toolName, in whatever order
\* the handlers settle; the joined list recorded for the batch keeps them.
C10_BatchOrder ==
  params.toolExecutor = "default" =>
    /\ batch.active =>
         /\ Len(batch.slots) = Len(batch.invocations)
         /\ \A k \in 1..Len(batch.slots) :
              /\ batch.slots[k].settled \/ batch.slots[k].handlerCalled
              /\ batch.slots[k].settled =>
                   /\ batch.slots[k].result.callId = batch.invocations[k].callId
                   /\ batch.slots[k].result.toolName = batch.invocations[k].toolName
    /\ \A k \in 2..Len(state.steps) :
         state.steps[k].type = "tool_result" =>
           \A j \in 1..Len(state.steps[k].results) :
             /\ j <= Len(state.steps[k - 1].invocations)
             /\ state.steps[k].results[j].callId
                  = state.steps[k - 1].invocations[j].callId
             /\ state.steps[k].results[j].toolName
                  = state.steps[k - 1].invocations[j].toolName

\* The handler of the second invocation has settled while the handler of the
\* first is still outstanding.
C10_Witness ==
  /\ params.toolExecutor = "default"
  /\ batch.active
  /\ Len(batch.slots) = 2
  /\ ~batch.slots[1].settled
  /\ batch.slots[2].settled
  /\ batch.slots[2].handlerCalled
  /\ batch.invocations[1].callId # batch.invocations[2].callId

----------------------------------------------------------------------------
(* The default tool executor and the failures of a run *)

\* An invocation the default executor cannot carry out: the tool is not
\* registered, its arguments fail the schema, or its handler throws.
FailingInvocation(invocation) ==
  \/ invocation.toolName \notin Registry
  \/ /\ HasArgsSchema(invocation.toolName)
     /\ ZodIssues(invocation.args) # << >>
  \/ invocation.toolName = "add_numbers" /\ ~BothNumbers(ArgsToUse(invocation))

\* The positions of the tool_invocation steps whose batch has been answered.
AnsweredBatches(steps) ==
  { p \in 1..(Len(steps) - 1) :
      steps[p].type = "tool_invocation" /\ steps[p + 1].type = "tool_result" }

RunIsOver == pc \in {"notify", "returned", "rejected"}

\* C11: with the default executor every batch is answered, by exactly one
\* result per invocation; the result of a failing invocation has ok = false
\* and an error, that of any other invocation has ok = true, and a result
\* depends on its own invocation only, whatever else the batch holds.
C11_FailureIsolation ==
  params.toolExecutor = "default" =>
    /\ \A p \in 1..Len(state.steps) :
         (state.steps[p].type = "tool_invocation" /\ (RunIsOver \/ p < Len(state.steps)))
           => p \in AnsweredBatches(state.steps)
    /\ \A p \in AnsweredBatches(state.steps) :
         LET invs == state.steps[p].invocations
             ress == state.steps[p + 1].results
         IN /\ Len(ress) = Len(invs)
            /\ \A j \in 1..Len(invs) :
                 /\ ress[j].callId = invs[j].callId
                 /\ ress[j].ok = ~FailingInvocation(invs[j])
                 /\ ress[j].ok = ~Has(ress[j], "error")
                 /\ \A q \in AnsweredBatches(state.steps) :
                      \A h \in 1..Len(state.steps[q].invocations) :
                        (h <= Len(state.steps[q + 1].results)
                           /\ state.steps[q].invocations[h] = invs[j])
                          => state.steps[q + 1].results[h] = ress[j]

\* A batch of the default executor in which a failed handler stands before a
\* successful one, and a second batch made of an unregistered tool alone.
C11_Witness ==
  /\ params.toolExecutor = "default"
  /\ pc = "returned"
  /\ \E p \in AnsweredBatches(state.steps) :
       LET ress == state.steps[p + 1].results
       IN /\ Len(ress) = 2
          /\ ~ress[1].ok /\ ress[1].error.type = "execution"
          /\ ress[2].ok
  /\ \E p \in AnsweredBatches(state.steps) :
       LET ress == state.steps[p + 1].results
       IN Len(ress) = 1 /\ ~ress[1].ok /\ ress[1].error.type = "not_found"

\* The stream was left by break on a final chunk, whose message is held until
\* the stream's return() has settled.
ClosingOnMessage == StreamClosing /\ Has(call.closing, "message")

\* The stream was left by an exception of an observer's onStreamChunk.
ClosingOnThrow == StreamClosing /\ Has(call.closing, "thrown")

\* A turn in which the model call stage fails: the capability throws or
\* rejects (llm.chat, the stream while it is read, or the stream when it is
\* closed after the break), it hands back a message whose role is not
\* assistant (by llm.chat, or in the final chunk once the stream is closed),
\* or the stream ends without a final chunk.
ModelCallFails ==
  \/ ChatRejects
  \/ StreamThrows
  \/ StreamEnds
  \/ \E m \in ModelMessages : m.role # "assistant" /\ ChatResolvesWith(m)
  \/ ClosingOnMessage /\ call.closing.message.role # "assistant"
       /\ StreamReturnResolves
  \/ ClosingOnMessage /\ StreamReturnRejects

ExpectedAssistantError == "Expected assistant message, got role \"user\""

ModelFailedDetails == "Model call failed or returned non-assistant message."

\* C12: a failing model call appends exactly one model_call step, with error
\* set, outputMessage unset and finishedAt set, and appends no message; the
\* error comes back from executeModelCall as a value, so the loop (not the
\* catch around it), when it goes on, ends the run with that error. The turn
\* that takes a final chunk records nothing: the step is appended when the
\* stream's return() has settled.
C12_ModelCallFailureStep ==
  /\ [][(pc = "await_model" /\ ~StreamClosing /\ StreamClosing') =>
          /\ state' = state
          /\ pc' = "await_model"
          /\ thrown' = thrown]_vars
  /\ [][ModelCallFails =>
          LET n == Len(state.steps)
              after == state'.steps
          IN /\ Len(after) = n + 1
             /\ SubSeq(after, 1, n) = state.steps
             /\ after[n + 1].type = "model_call"
             /\ after[n + 1].index = n
             /\ Has(after[n + 1], "error")
             /\ ~Has(after[n + 1], "outputMessage")
             /\ Has(after[n + 1], "finishedAt")
             /\ after[n + 1].inputMessages = state.messages
             /\ state'.messages = state.messages
             /\ state'.status = "running"
             /\ thrown' = thrown
             /\ call'.modelResult = [error |-> after[n + 1].error]
             /\ pc' = "model_returned"]_vars
  /\ [][LoopResumesOnFailure =>
          LET n == Len(state.steps)
              after == state'.steps
          IN /\ n >= 1
             /\ state.steps[n].type = "model_call"
             /\ Has(state.steps[n], "error")
             /\ call.modelResult = [error |-> state.steps[n].error]
             /\ Len(after) = n + 1
             /\ SubSeq(after, 1, n) = state.steps
             /\ state'.messages = state.messages
             /\ after[n + 1].type = "termination"
             /\ after[n + 1].reason = "model_error"
             /\ after[n + 1].details = ModelFailedDetails
             /\ state'.error = state.steps[n].error
             /\ pc' = "notify"]_vars
  /\ [][(pc = "model_returned" /\ Has(call.modelResult, "error")) =>
          ~Has(call.modelResult, "assistantMessage")]_vars

\* After one answered batch the stream's final chunk has handed back a
\* message of role user, and the stream's return() has resolved.
C12_Witness ==
  /\ pc = "returned"
  /\ params.chatStream
  /\ Len(state.steps) = 5
  /\ state.steps[4].type = "model_call"
  /\ Has(state.steps[4], "error")
  /\ state.steps[4].error = ExpectedAssistantError
  /\ state.steps[5].type = "termination"

\* C13: when the model capability throws an Error with message m, the model
\* call returns m as its error, recorded in the model_call step it appends,
\* and the loop, going on, ends the run with status failed and
\* terminationReason model_error: result.error is m and is the error of the
\* last model_call step, the last two steps are that model_call step and the
\* termination step, and from the throw on neither the model nor the tool
\* executor is invoked again.
C13_ModelThrowEndsRun ==
  [][/\ \A err \in ThrownValues :
          (err.isError /\ (ChatRejectsWith(err) \/ StreamThrowsWith(err))) =>
            LET n == Len(state'.steps) IN
            /\ pc' = "model_returned"
            /\ call'.modelResult = [error |-> err.message]
            /\ n = Len(state.steps) + 1
            /\ state'.steps[n].type = "model_call"
            /\ Has(state'.steps[n], "error")
            /\ state'.steps[n].error = err.message
            /\ modelCalls' = modelCalls
            /\ executorCalls' = executorCalls
     /\ LoopResumesOnFailure =>
            LET n == Len(state'.steps) IN
            /\ pc' = "notify"
            /\ result'.status = "failed"
            /\ Has(result', "terminationReason")
            /\ result'.terminationReason = "model_error"
            /\ Has(result', "error")
            /\ result'.error = call.modelResult.error
            /\ result'.steps = state'.steps
            /\ n = Len(state.steps) + 1
            /\ state'.steps[n - 1].type = "model_call"
            /\ Has(state'.steps[n - 1], "error")
            /\ state'.steps[n - 1].error = call.modelResult.error
            /\ state'.steps[n].type = "termination"
            /\ modelCalls' = modelCalls
            /\ executorCalls' = executorCalls
     /\ RunIsOver =>
          /\ modelCalls' = modelCalls
          /\ executorCalls' = executorCalls
          /\ state' = state
          /\ result' = result]_vars

\* The second model call of a run threw the Error "model down".
C13_Witness ==
  /\ pc = "returned"
  /\ modelCalls = 2
  /\ executorCalls = 1
  /\ result.status = "failed"
  /\ Has(result, "error")
  /\ result.error = "model down"
  /\ LastStep(result.steps).details = ModelFailedDetails

\* What holds of a failure of the run: a failure of the model call comes back
\* to the loop as a value and nothing is thrown; the turn of the loop that
\* meets the failure builds a result whose status is completed, failed or
\* terminated and whose terminationReason is set; and a rejection comes from
\* an observer's onRunFinished only, after such a result was built.
FailureBuildsResult ==
  /\ [][ModelCallFails =>
          /\ pc' = "model_returned"
          /\ Has(call'.modelResult, "error")
          /\ thrown' = NotThrown]_vars
  /\ [][(LoopResumesOnFailure \/ CustomExecuteRejects) =>
          /\ pc' = "notify"
          /\ result'.status \in TerminalStatuses
          /\ Has(result', "terminationReason")]_vars
  /\ [](pc = "rejected" => (DOMAIN thrown # {} /\ Notified # {}))

\* C14: a run that has failed, by a failure of the model call or by a
\* rejection of the tool executor, never makes runAgentLoop reject, and what
\* the caller receives is a result whose status is completed, failed or
\* terminated and whose terminationReason is set.
C14_FailureReturnsResult ==
  /\ state.status = "failed" => pc # "rejected"
  /\ (state.status = "failed" /\ pc = "returned") =>
       /\ result.status \in TerminalStatuses
       /\ Has(result, "terminationReason")

\* C15: when toolExecutor.execute rejects, the catch around the loop ends the
\* run with status failed, terminationReason model_error and error = the
\* message of what was thrown; exactly one termination step is appended, the
\* tool_invocation step recorded before the execution stays the step before
\* it (no tool_result step follows), and totalToolCalls and messages are as
\* they were before the dispatch.
C15_ExecutorRejection ==
  [][\A err \in ThrownValues :
       CustomExecuteRejectsWith(err) =>
         LET n == Len(state.steps)
             message == IF err.isError THEN err.message
                        ELSE "Unknown error: " \o err.message
         IN /\ state'.status = "failed"
            /\ Has(state', "terminationReason")
            /\ state'.terminationReason = "model_error"
            /\ Has(state', "error")
            /\ state'.error = message
            /\ Len(state'.steps) = n + 1
            /\ SubSeq(state'.steps, 1, n) = state.steps
            /\ state'.steps[n].type = "tool_invocation"
            /\ state'.steps[n + 1].type = "termination"
            /\ state'.steps[n + 1].reason = "model_error"
            /\ state'.steps[n + 1].details = message
            /\ state'.totalToolCalls = state.totalToolCalls
            /\ state'.messages = state.messages
            /\ LastStep(state.messages).role = "assistant"
            /\ result' = stateToRunResult(state')
            /\ pc' = "notify"]_vars

\* The executor rejected the second batch of a run with the Error "model
\* down": the first batch stays counted, the second one stays unanswered.
C15_Witness ==
  /\ pc = "returned"
  /\ executorCalls = 2
  /\ Len(state.steps) = 6
  /\ state.steps[5].type = "tool_invocation"
  /\ state.steps[6].type = "termination"
  /\ state.steps[6].details = "model down"
  /\ state.totalToolCalls = 1
  /\ result.status = "failed"

----------------------------------------------------------------------------
(* The shape of a run *)

StepsOfType(steps, type) == { p \in 1..Len(steps) : steps[p].type = type }

\* The actions requested by the assistant turns recorded in a history.
RECURSIVE RequestedActions(_)
RequestedActions(steps) ==
  IF steps = << >> THEN 0
  ELSE (IF Head(steps).type = "model_call" /\ Has(Head(steps), "outputMessage")
          THEN Len(ToolCallsOf(Head(steps).outputMessage)) ELSE 0)
       + RequestedActions(Tail(steps))

RequestsNothing(message) ==
  message.role = "assistant" /\ Len(ToolCallsOf(message)) = 0

\* The turn in which the model call stage takes an assistant message without
\* requested actions: llm.chat resolves with it, or the stream that was left
\* on the final chunk holding it is closed.
FinalAnswerTurn ==
  /\ pc = "await_model"
  /\ \/ \E m \in ModelMessages : RequestsNothing(m) /\ ChatResolvesWith(m)
     \/ ClosingOnMessage /\ RequestsNothing(call.closing.message)
          /\ StreamReturnResolves

\* The turn in which the loop goes on with an assistant message without
\* requested actions.
LoopResumesOnFinalAnswer ==
  LoopResumesOnMessage /\ RequestsNothing(call.modelResult.assistantMessage)

\* C16: when the model has requested within-budget actions on k turns, each
\* batch was executed, and turn k + 1 requests nothing (k is the loop counter
\* i at that turn, 0 <= k < maxSteps), the loop, going on with that message,
\* ends the run completed with k + 1 model_call steps, k tool_invocation
\* steps, k tool_result steps and one termination step; totalToolCalls is the
\* number of results the executor has handed back, which is the number of
\* actions requested when every invocation was answered with one result.
C16_CompletedRunShape ==
  /\ [][FinalAnswerTurn =>
          /\ pc' = "model_returned"
          /\ Has(call'.modelResult, "assistantMessage")
          /\ RequestsNothing(call'.modelResult.assistantMessage)
          /\ LastStep(state'.steps).outputMessage
               = call'.modelResult.assistantMessage
          /\ i' = i]_vars
  /\ [][LoopResumesOnFinalAnswer =>
          LET k == i
              after == state'.steps
          IN /\ k < params.config.maxSteps
             /\ executorCalls = k
             /\ pc' = "notify"
             /\ result'.status = "completed"
             /\ Has(result', "terminationReason")
             /\ result'.terminationReason = "completed"
             /\ result'.steps = after
             /\ Len(after) = 3 * k + 2
             /\ Cardinality(StepsOfType(after, "model_call")) = k + 1
             /\ Cardinality(StepsOfType(after, "tool_invocation")) = k
             /\ Cardinality(StepsOfType(after, "tool_result")) = k
             /\ Cardinality(StepsOfType(after, "termination")) = 1
             /\ result'.totalToolCalls = ResultsRecorded(after)
             /\ OneResultPerInvocation(after) =>
                  result'.totalToolCalls = RequestedActions(after)]_vars

\* C16 as it is stated: whatever the executor has handed back, a run that
\* ends on a turn without requested actions has totalToolCalls equal to the
\* number of actions requested.
C16_CountsRequestedActions ==
  [][LoopResumesOnFinalAnswer =>
       result'.totalToolCalls = RequestedActions(state'.steps)]_vars

\* A completed streamed run of the default executor with k = 1 and one action,
\* hence totalToolCalls = 1.
C16_Witness ==
  /\ pc = "returned"
  /\ params.toolExecutor = "default"
  /\ params.chatStream
  /\ result.status = "completed"
  /\ Len(result.steps) = 5
  /\ Len(result.steps[2].invocations) = 1
  /\ result.totalToolCalls = 1

\* The turn in which toolExecutor.execute hands back its results.
ExecutorAnswers == ExecuteResolves \/ CustomExecuteResolves

\* C17: the model capability is invoked at most maxSteps times; when the
\* batch of the last allowed turn (loop counter maxSteps - 1) is answered, it
\* is recorded like every batch before it (tool_result step, tool messages,
\* counter) and the run then ends with status terminated and
\* terminationReason max_steps_reached, finalAnswer never having been set;
\* the batch of an earlier turn is followed by the next model call.
C17_MaxStepsRun ==
  /\ [](modelCalls <= params.config.maxSteps /\ executorCalls <= modelCalls)
  /\ [][ExecutorAnswers =>
          LET n == Len(state.steps)
              after == state'.steps
          IN /\ Len(after) > n
             /\ after[n].type = "tool_invocation"
             /\ after[n + 1].type = "tool_result"
             /\ state'.totalToolCalls
                  = state.totalToolCalls + Len(after[n + 1].results)
             /\ Len(state'.messages)
                  = Len(state.messages) + Len(after[n + 1].results)
             /\ ~Has(state', "finalAnswer")
             /\ IF i = params.config.maxSteps - 1
                  THEN /\ modelCalls = params.config.maxSteps
                       /\ executorCalls = params.config.maxSteps
                       /\ Len(after) = 3 * params.config.maxSteps + 1
                       /\ LastStep(after).type = "termination"
                       /\ LastStep(after).reason = "max_steps_reached"
                       /\ LastStep(after).details = MaxStepsDetails
                       /\ pc' = "notify"
                       /\ result'.status = "terminated"
                       /\ result'.terminationReason = "max_steps_reached"
                       /\ ~Has(result', "finalAnswer")
                  ELSE /\ Len(after) = n + 1
                       /\ pc' = "await_model"
                       /\ modelCalls' = modelCalls + 1
                       /\ state'.status = "running"]_vars

\* Both turns of a run with maxSteps = 2 requested actions and both batches
\* were answered.
C17_Witness ==
  /\ pc = "returned"
  /\ params.config.maxSteps = 2
  /\ modelCalls = 2
  /\ executorCalls = 2
  /\ Len(result.steps) = 7
  /\ result.steps[6].type = "tool_result"
  /\ result.status = "terminated"
  /\ LastStep(result.steps).details = MaxStepsDetails

OverBudget(total, requested, cfg) ==
  Has(cfg, "maxToolCalls") /\ total + requested > cfg.maxToolCalls

\* C18: a loop iteration ends the run at most once, on the first condition
\* that applies, in this order: the model call failed (model_error); the
\* assistant turn requests nothing (completed, on the last allowed iteration
\* too, with finalAnswer set to that turn); the projected tool-call total
\* exceeds the budget (max_steps_reached, nothing executed); the last allowed
\* iteration has finished its batch (max_steps_reached).  Otherwise the run
\* goes on, and finalAnswer is set on the completed exit only.
C18_TerminationOrder ==
  /\ [][ModelCallReturns =>
          /\ Len(state'.steps) = Len(state.steps) + 1
          /\ LastStep(state'.steps).type = "model_call"
          /\ TerminationPositions(state'.steps) = {}
          /\ state'.status = "running"
          /\ ~Has(state', "finalAnswer")]_vars
  /\ [][LoopResumes =>
          LET n == Len(state.steps)
              after == state'.steps
              step == state.steps[n]
              requested == Len(ToolCallsOf(step.outputMessage))
              ended == TerminationPositions(after) # {}
          IN /\ step.type = "model_call"
             /\ Has(step, "error") <=> ~Has(call.modelResult, "assistantMessage")
             /\ Cardinality(TerminationPositions(after)) <= 1
             /\ Has(state', "finalAnswer") <=> (ended /\ state'.status = "completed")
             /\ IF Has(step, "error")
                  THEN /\ ended
                       /\ LastStep(after).reason = "model_error"
                       /\ state'.status = "failed"
                ELSE IF requested = 0
                  THEN /\ ended
                       /\ LastStep(after).reason = "completed"
                       /\ state'.status = "completed"
                       /\ state'.finalAnswer = step.outputMessage
                ELSE IF OverBudget(state.totalToolCalls, requested, params.config)
                  THEN /\ ended
                       /\ Len(after) = n + 1
                       /\ LastStep(after).reason = "max_steps_reached"
                       /\ LastStep(after).details # MaxStepsDetails
                       /\ state'.status = "terminated"
                       /\ executorCalls' = executorCalls
                ELSE /\ ~ended
                     /\ pc' = "await_tools"
                     /\ executorCalls' = executorCalls + 1]_vars
  /\ [][ExecutorAnswers =>
          LET ended == TerminationPositions(state'.steps) # {}
          IN /\ ended <=> (i = params.config.maxSteps - 1)
             /\ ended => /\ LastStep(state'.steps).reason = "max_steps_reached"
                         /\ LastStep(state'.steps).details = MaxStepsDetails
             /\ ~Has(state', "finalAnswer")]_vars

\* A run with a budget ended completed by an assistant turn that requested
\* nothing on the last allowed iteration, after a batch that used the budget up.
C18_Witness ==
  /\ pc = "returned"
  /\ params.config.maxSteps = 2
  /\ Has(params.config, "maxToolCalls")
  /\ result.totalToolCalls = params.config.maxToolCalls
  /\ modelCalls = 2
  /\ result.status = "completed"
  /\ result.terminationReason = "completed"
  /\ Has(result, "finalAnswer")

----------------------------------------------------------------------------
(* The incremental call *)

\* The chunks a stream can yield.
StreamChunks == PartialChunks \cup { FinalChunk(m) : m \in ModelMessages }

\* The turn in which the for await receives chunk, whatever the observers do
\* with it.
ChunkReceived(chunk) ==
  \/ ~IsFinalChunk(chunk) /\ StreamChunkWith(chunk)
  \/ IsFinalChunk(chunk) /\ StreamFinalChunkWith(chunk.message)
  \/ \E thrower \in ChunkHandlers(params.runObservers), err \in ThrownValues :
       OnStreamChunkThrowsWith(chunk, thrower, err)

\* What executeModelCall leaves behind when llm.chat resolves with message in
\* place of the stream: the run state and the result handed to the loop.
BlockingOutcome(message) ==
  executeModelCallOnMessage(state, call.step, message)

\* C19: a run that streams reaches the run state (steps, messages, status,
\* terminationReason, finalAnswer, totalToolCalls) of the run that calls
\* llm.chat with the same model outputs: a chunk before the final one leaves
\* the run state as it is and the stream goes on being read; the final chunk
\* carrying message m has m taken, and once the stream is closed the run is
\* where llm.chat resolving with m would leave it, with the same result
\* handed to the loop.
C19_StreamMatchesBlocking ==
  /\ [][\A chunk \in StreamChunks :
          ChunkReceived(chunk) =>
            /\ state' = state
            /\ IF IsFinalChunk(chunk)
                 THEN call'.closing = [message |-> chunk.message]
                 ELSE ~StreamClosing']_vars
  /\ [][(ClosingOnMessage /\ StreamReturnResolves) =>
          /\ state' = BlockingOutcome(call.closing.message).state
          /\ call'.modelResult
               = BlockingOutcome(call.closing.message).modelResult]_vars

\* C20: in incremental mode every chunk received, the final one included, is
\* handed to the onStreamChunk of each observer that declares one; a chunk
\* that is not final leaves the run state unchanged and the stream goes on
\* being read; the message of the final chunk is the one committed: when the
\* stream is closed it is appended to messages and is the outputMessage of
\* the model_call step.
C20_ChunkForwarding ==
  /\ [][\A chunk \in StreamChunks :
          ChunkReceived(chunk) =>
            /\ \A k \in ChunkHandlers(params.runObservers) :
                 observed'[k] = ObserveChunk(observed[k], chunk)
            /\ \A k \in 1..Len(observed) \ ChunkHandlers(params.runObservers) :
                 observed'[k] = observed[k]
            /\ ~IsFinalChunk(chunk) => (state' = state /\ ~StreamClosing')
            /\ IsFinalChunk(chunk) => ClosingOnMessage'
            /\ (IsFinalChunk(chunk) /\ ClosingOnMessage') =>
                 call'.closing.message = chunk.message]_vars
  /\ [][(ClosingOnMessage /\ call.closing.message.role = "assistant"
         /\ StreamReturnResolves) =>
          /\ state'.messages = Append(state.messages, call.closing.message)
          /\ Has(state'.steps[Len(state.steps) + 1], "outputMessage")
          /\ state'.steps[Len(state.steps) + 1].outputMessage
               = call.closing.message]_vars

----------------------------------------------------------------------------
(* The message history *)

IsPrefix(s, t) == Len(s) <= Len(t) /\ SubSeq(t, 1, Len(s)) = s

\* C21: the message history starts as [system, user] and is append-only:
\* every turn leaves the messages it found as a prefix of the messages it
\* leaves behind, so nothing is removed, reordered or replaced.
C21_MessagesAppendOnly ==
  /\ [](IsPrefix(<<SystemMessage, UserMessage>>, state.messages))
  /\ [][IsPrefix(state.messages, state'.messages)]_vars

\* Two assistant turns and the tool messages of an answered batch have been
\* appended behind [system, user].
C21_Witness ==
  /\ Len(state.messages) >= 5
  /\ state.messages[3].role = "assistant"
  /\ state.messages[4].role = "tool"
  /\ LastStep(state.messages).role = "assistant"

----------------------------------------------------------------------------
(* The end of a run *)

RunTerminated == TerminationPositions(state.steps) # {}

\* C22: once a termination step has been appended, no model call and no tool
\* dispatch is made and steps, messages, totalToolCalls and finalAnswer (the
\* whole run state) stay as they are; the termination step is appended in the
\* turn that leaves the loop, and the result view is built from the state
\* that turn leaves behind.
C22_FrozenAfterTermination ==
  /\ [][RunTerminated =>
          /\ state' = state
          /\ result' = result
          /\ modelCalls' = modelCalls
          /\ executorCalls' = executorCalls
          /\ pc' \in {"notify", "returned", "rejected"}]_vars
  /\ [](RunTerminated =>
          /\ RunIsOver
          /\ call = NoCall
          /\ batch = NoBatch
          /\ result = stateToRunResult(state)
          /\ result.steps = state.steps
          /\ LastStep(result.steps).type = "termination")

\* A terminated run whose observers are being notified: the second of three
\* observers has been called.
C22_Witness ==
  /\ RunTerminated
  /\ pc = "notify"
  /\ Len(observed) = 3
  /\ observed[2].finished = 1
  /\ observed[3].finished = 0
  /\ state.totalToolCalls >= 1

\* The turn that records a tool_result step.
ResultStepRecorded ==
  /\ Len(state'.steps) > Len(state.steps)
  /\ state'.steps[Len(state.steps) + 1].type = "tool_result"

\* C23: the turn that records the tool_result step of a batch appends, behind
\* the messages it found, exactly one message of role tool per result, in
\* result order, with toolCallId = the result's callId and content = the
\* serialized data of an ok result ("null" without data) or the serialized
\* {error} envelope of a failed one; a model call started by that turn
\* already takes these messages as its input.
C23_ToolMessages ==
  [][ResultStepRecorded =>
       LET n == Len(state.messages)
           results == state'.steps[Len(state.steps) + 1].results
           after == state'.messages
       IN /\ Len(after) = n + Len(results)
          /\ SubSeq(after, 1, n) = state.messages
          /\ \A k \in 1..Len(results) :
               /\ after[n + k].role = "tool"
               /\ after[n + k].toolCallId = results[k].callId
               /\ after[n + k].content =
                    IF results[k].ok
                      THEN (IF Has(results[k], "data")
                              THEN JsonStringify(results[k].data) ELSE "null")
                      ELSE JsonStringifyError(results[k].error)
          /\ pc' = "await_model" =>
               /\ call'.step.inputMessages = after
               /\ call'.step.index = Len(state.steps) + 1]_vars

\* A batch of the default executor with a failed and a successful result has
\* been fed back: the envelope and the payload stand at the end of messages,
\* in result order.
C23_Witness ==
  /\ pc = "await_model"
  /\ params.toolExecutor = "default"
  /\ state.steps # << >>
  /\ LastStep(state.steps).type = "tool_result"
  /\ Len(LastStep(state.steps).results) = 2
  /\ ~LastStep(state.steps).results[1].ok
  /\ LastStep(state.steps).results[2].ok
  /\ state.messages[Len(state.messages) - 1].content
       = JsonStringifyError(LastStep(state.steps).results[1].error)
  /\ LastStep(state.messages).content = "{\"a\":2,\"b\":3,\"sum\":5}"
  /\ LastStep(state.messages).toolCallId = "call_a"

----------------------------------------------------------------------------
(* The stages of an iteration *)

\* The turn that starts a model call.
ModelCallStarted == modelCalls' > modelCalls

\* C24: the stages of a run never overlap.  While a tool batch is outstanding
\* no model call is, and the other way round; the turn that records the
\* tool_result step of a batch of the default executor finds every invocation
\* of the batch answered and records all their results; and a model call is
\* started only with no batch left, with every message of the history, the
\* feedback of the last batch included, as its input.
C24_StagesDoNotOverlap ==
  /\ [](/\ pc = "await_tools" => batch.active /\ call = NoCall
        /\ pc = "await_model" => call.active /\ batch = NoBatch
        /\ batch.active => pc = "await_tools"
        /\ call.active => pc = "await_model")
  /\ [][/\ (ResultStepRecorded /\ params.toolExecutor = "default") =>
             /\ batch.active
             /\ AllSettled(batch.slots)
             /\ Len(batch.slots) = Len(batch.invocations)
             /\ state'.steps[Len(state.steps) + 1].results
                  = [k \in 1..Len(batch.slots) |-> batch.slots[k].result]
        /\ ModelCallStarted =>
             /\ batch' = NoBatch
             /\ call'.step.inputMessages = state'.messages
             /\ state'.steps # << >> =>
                  /\ LastStep(state'.steps).type = "tool_result"
                  /\ Len(state'.messages) >= Len(LastStep(state'.steps).results)
                  /\ \A k \in 1..Len(LastStep(state'.steps).results) :
                       state'.messages[Len(state'.messages)
                           - Len(LastStep(state'.steps).results) + k].role = "tool"
       ]_vars

\* A batch of two invocations of the default executor is outstanding with the
\* second answered before the first: the loop is still waiting.
C24_Witness ==
  /\ pc = "await_tools"
  /\ params.toolExecutor = "default"
  /\ Len(batch.slots) = 2
  /\ ~batch.slots[1].settled
  /\ batch.slots[2].settled
  /\ LastStep(state.steps).type = "tool_invocation"

----------------------------------------------------------------------------
(* Termination *)

\* The bounds of a run: model calls and steps.
WithinStepBounds ==
  /\ modelCalls <= params.config.maxSteps
  /\ Len(state.steps) <= 3 * params.config.maxSteps + 1

\* C25: when every model call and every tool batch returns or fails, a run
\* with maxSteps >= 1 eventually has a terminal status and returns to its
\* caller, after at most maxSteps model calls and 3 * maxSteps + 1 steps.
C25_RunReturns ==
  /\ [](params.config.maxSteps >= 1 => WithinStepBounds)
  /\ (pc = "created" /\ params.config.maxSteps >= 1)
       ~> (/\ pc = "returned"
           /\ state.status \in TerminalStatuses
           /\ WithinStepBounds)

----------------------------------------------------------------------------
(* Termination reasons *)

ProducedReasons == {"completed", "max_steps_reached", "model_error"}

\* The turn that records a tool_result step holding a failed result.
FailedResultRecorded ==
  /\ ResultStepRecorded
  /\ \E k \in 1..Len(state'.steps[Len(state.steps) + 1].results) :
       ~state'.steps[Len(state.steps) + 1].results[k].ok

\* C26: the terminationReason of a run, in the state, in the termination step
\* and in the result, is completed, max_steps_reached or model_error, never
\* tool_error or user_stopped.  The turn that records a failed tool result
\* feeds it back as a tool message and does not end the run because of it:
\* before the last allowed turn the next model call is started with that
\* message in its input and no termination step is appended; on the last
\* allowed turn the run ends with max_steps_reached.
C26_TerminationReasons ==
  /\ [](/\ Has(state, "terminationReason") =>
             state.terminationReason \in ProducedReasons
        /\ \A p \in TerminationPositions(state.steps) :
             state.steps[p].reason \in ProducedReasons
        /\ Has(result, "terminationReason") =>
             result.terminationReason \in ProducedReasons)
  /\ [][FailedResultRecorded =>
          LET n == Len(state.steps)
              results == state'.steps[n + 1].results
              m == Len(state.messages)
          IN /\ \A k \in 1..Len(results) :
                  ~results[k].ok =>
                    /\ Len(state'.messages) >= m + k
                    /\ state'.messages[m + k].role = "tool"
                    /\ state'.messages[m + k].toolCallId = results[k].callId
                    /\ state'.messages[m + k].content
                         = JsonStringifyError(results[k].error)
             /\ IF i < params.config.maxSteps - 1
                  THEN /\ Len(state'.steps) = n + 1
                       /\ ~Has(state', "terminationReason")
                       /\ state'.status = "running"
                       /\ pc' = "await_model"
                       /\ modelCalls' = modelCalls + 1
                       /\ call'.step.inputMessages = state'.messages
                  ELSE /\ Len(state'.steps) = n + 2
                       /\ state'.steps[n + 2].type = "termination"
                       /\ state'.steps[n + 2].reason = "max_steps_reached"
                       /\ state'.status = "terminated"]_vars

\* A run in which a tool result failed and the model was called again and
\* answered: the run completed.
C26_Witness ==
  /\ Has(state, "terminationReason")
  /\ state.terminationReason = "completed"
  /\ \E p \in StepsOfType(state.steps, "tool_result") :
       /\ \E k \in 1..Len(state.steps[p].results) : ~state.steps[p].results[k].ok
       /\ state.steps[p + 1].type = "model_call"

----------------------------------------------------------------------------
(* Tool results *)

\* The results executeToolInvocation has produced so far: those the
\* outstanding batch holds and those recorded in tool_result steps.
ProducedResults ==
  { batch.slots[k].result :
      k \in { h \in 1..(IF batch.active THEN Len(batch.slots) ELSE 0) :
                batch.slots[h].settled } }
  \cup UNION { { state.steps[p].results[k] : k \in 1..Len(state.steps[p].results) } :
               p \in StepsOfType(state.steps, "tool_result") }

\* The results of the path that ends in an error of the given type.
ResultsOfType(type) ==
  { r \in ProducedResults : Has(r, "error") /\ r.error.type = type }

\* C27: every result produced by executeToolInvocation has ok = false exactly
\* when it carries an error, and ok = true only without one; the error of a
\* failed result is of type not_found, validation or execution.
C27_OkIffNoError ==
  params.toolExecutor = "default" =>
    \A r \in ProducedResults :
      /\ r.ok \in BOOLEAN
      /\ ~r.ok <=> Has(r, "error")
      /\ r.ok => ~Has(r, "error")
      /\ Has(r, "error") => r.error.type \in {"not_found", "validation", "execution"}

\* A run of the default executor that has produced a validation failure, an
\* execution failure and a success.
C27_Witness ==
  /\ params.toolExecutor = "default"
  /\ ResultsOfType("validation") # {}
  /\ ResultsOfType("execution") # {}
  /\ \E r \in ProducedResults : r.ok /\ Has(r, "data")

\* A run of the default executor that has produced a not_found failure next
\* to a success.
C27_WitnessNotFound ==
  /\ params.toolExecutor = "default"
  /\ ResultsOfType("not_found") # {}
  /\ \E r \in ProducedResults : r.ok

----------------------------------------------------------------------------
(* From requested actions to invocations *)

\* The actions requested by the model call recorded just before position p.
ActionsBefore(steps, p) ==
  IF p >= 2 /\ steps[p - 1].type = "model_call" /\ Has(steps[p - 1], "outputMessage")
    THEN ToolCallsOf(steps[p - 1].outputMessage)
    ELSE << >>

\* C28: the invocations of every tool_invocation step are the actions
\* requested by the model call recorded just before it, one to one and in
\* order: as many invocations as actions, toolName = the action's name, and
\* callId = the action's id when that is not empty, else
\* "toolcall-<stepIndex>-<position>" with stepIndex the number of steps at the
\* start of the iteration (the index of its model_call step) and position
\* counted from zero.
C28_InvocationsFollowActions ==
  \A p \in StepsOfType(state.steps, "tool_invocation") :
    LET actions == ActionsBefore(state.steps, p)
        invocations == state.steps[p].invocations
    IN /\ p >= 2
       /\ state.steps[p - 1].type = "model_call"
       /\ state.steps[p - 1].index = p - 2
       /\ Len(invocations) = Len(actions)
       /\ Len(invocations) >= 1
       /\ \A j \in 1..Len(invocations) :
            /\ invocations[j].toolName = actions[j].name
            /\ actions[j].id # "" => invocations[j].callId = actions[j].id
            /\ actions[j].id = "" =>
                 invocations[j].callId
                   = "toolcall-" \o ToString(p - 2) \o "-" \o ToString(j - 1)

\* The second iteration of a run has translated two actions, the first with
\* an id of its own and the second without: the second invocation is
\* "toolcall-3-1".
C28_Witness ==
  /\ Len(state.steps) >= 5
  /\ state.steps[5].type = "tool_invocation"
  /\ Len(state.steps[5].invocations) = 2
  /\ state.steps[5].invocations[1].callId = "call_b"
  /\ state.steps[5].invocations[2].callId = "toolcall-3-1"
  /\ state.steps[5].invocations[2].toolName = "add_numbers"

\* The invocations recorded in a run, each with its place: <<p, j>> is the
\* j-th invocation of the tool_invocation step at position p.
RecordedPlaces ==
  { <<p, j>> \in (1..Len(state.steps)) \X (1..MaxCalls) :
      /\ state.steps[p].type = "tool_invocation"
      /\ j <= Len(state.steps[p].invocations) }

CallIdAt(place) == state.steps[place[1]].invocations[place[2]].callId

\* C29: no two invocations recorded in a run, in the same tool_invocation
\* step or in different ones, have the same callId.
C29_UniqueCallIds ==
  \A x, y \in RecordedPlaces : CallIdAt(x) = CallIdAt(y) => x = y

\* An argument payload that is there and is not JSON.
Unparseable(text) == text # "" /\ ~JsonParses(text)

\* The args an invocation carries for the argument payload text.
ExpectedArgs(text) ==
  IF text = "" THEN << >>
  ELSE IF Unparseable(text) THEN [_raw |-> text]
  ELSE JsonParse(text)

\* The turn in which the loop goes on, within the tool-call budget, with an
\* assistant message that requests an action with an unparseable payload.
UnparseableActionTurn ==
  /\ LoopResumesOnMessage
  /\ LET actions == ToolCallsOf(call.modelResult.assistantMessage)
     IN /\ \E j \in 1..Len(actions) : Unparseable(actions[j].arguments)
        /\ ~OverBudget(state.totalToolCalls, Len(actions), params.config)

\* C30: an action whose argument payload is not JSON does not abort the
\* translation and does not end the run.  In every tool_invocation step the
\* invocation of such an action carries args {_raw: <the payload>}, that of an
\* action with an empty payload carries the empty object, and that of any
\* other action the parsed payload; the turn that receives such an action
\* records the whole batch in a tool_invocation step, appends no termination
\* step and hands the whole batch to the tool executor; the default executor
\* calls the handler of a registered tool without schema with these args.
C30_UnparseableArguments ==
  /\ [](/\ \A p \in StepsOfType(state.steps, "tool_invocation") :
             LET actions == ActionsBefore(state.steps, p)
             IN /\ Len(state.steps[p].invocations) = Len(actions)
                /\ \A j \in 1..Len(actions) :
                     state.steps[p].invocations[j].args
                       = ExpectedArgs(actions[j].arguments)
        /\ pc = "await_tools" =>
             /\ LastStep(state.steps).type = "tool_invocation"
             /\ batch.invocations = LastStep(state.steps).invocations
             /\ params.toolExecutor = "default" =>
                  /\ Len(batch.slots) = Len(batch.invocations)
                  /\ \A j \in 1..Len(batch.slots) :
                       (/\ Has(batch.invocations[j].args, "_raw")
                        /\ batch.invocations[j].toolName \in Registry
                        /\ ~HasArgsSchema(batch.invocations[j].toolName))
                         => batch.slots[j].handlerCalled)
  /\ [][UnparseableActionTurn =>
          LET n == Len(state.steps)
              actions == ToolCallsOf(state.steps[n].outputMessage)
          IN /\ call.modelResult.assistantMessage = state.steps[n].outputMessage
             /\ Len(state'.steps) = n + 1
             /\ state'.steps[n + 1].type = "tool_invocation"
             /\ Len(state'.steps[n + 1].invocations) = Len(actions)
             /\ state'.status = "running"
             /\ pc' = "await_tools"
             /\ executorCalls' = executorCalls + 1
             /\ batch'.invocations = state'.steps[n + 1].invocations]_vars

\* A batch made of an action with an unparseable payload and a well-formed
\* one has been answered by the default executor, the first by an execution
\* failure of its handler and the second by a success, and a later turn has
\* translated an empty payload to the empty object.
C30_Witness ==
  /\ params.toolExecutor = "default"
  /\ Len(state.steps) >= 5
  /\ state.steps[2].type = "tool_invocation"
  /\ Len(state.steps[2].invocations) = 2
  /\ state.steps[2].invocations[1].args = [_raw |-> BrokenArgs]
  /\ state.steps[3].type = "tool_result"
  /\ ~state.steps[3].results[1].ok
  /\ state.steps[3].results[1].error.type = "execution"
  /\ state.steps[3].results[2].ok
  /\ state.steps[5].type = "tool_invocation"
  /\ state.steps[4].outputMessage.toolCalls[1].arguments = ""
  /\ state.steps[5].invocations[1].args = << >>

----------------------------------------------------------------------------
(* The paths of executeToolInvocation *)

NotRegistered(invocation) == invocation.toolName \notin Registry

FailsSchema(invocation) ==
  /\ invocation.toolName \in Registry
  /\ HasArgsSchema(invocation.toolName)
  /\ ZodIssues(invocation.args) # << >>

HandlerThrows(invocation) ==
  /\ ~NotRegistered(invocation)
  /\ ~FailsSchema(invocation)
  /\ invocation.toolName = "add_numbers"
  /\ ~BothNumbers(ArgsToUse(invocation))

\* The error type of a settled slot's result, "" for a success.
ErrorTypeOf(slot) ==
  IF slot.result.ok \/ ~Has(slot.result, "error") THEN "" ELSE slot.result.error.type

\* C31: in a batch of the default executor no handler is called for an
\* invocation of a tool that is not registered (result not_found) or whose
\* args fail the tool's schema (result validation), both answered at once; a
\* handler that throws gives an execution failure; every error has
\* retryable = false; and nothing is retried: an answered invocation keeps
\* its result while the batch is outstanding, and the executor is called once
\* per tool_invocation step.
C31_ExecutorPaths ==
  /\ []((pc = "await_tools" /\ params.toolExecutor = "default") =>
          \A k \in 1..Len(batch.slots) :
            LET invocation == batch.invocations[k]
                slot == batch.slots[k]
            IN /\ NotRegistered(invocation) =>
                    ~slot.handlerCalled /\ slot.settled /\ ErrorTypeOf(slot) = "not_found"
               /\ FailsSchema(invocation) =>
                    ~slot.handlerCalled /\ slot.settled /\ ErrorTypeOf(slot) = "validation"
               /\ (~NotRegistered(invocation) /\ ~FailsSchema(invocation)) =>
                    slot.handlerCalled
               /\ (HandlerThrows(invocation) /\ slot.settled) =>
                    ~slot.result.ok /\ ErrorTypeOf(slot) = "execution"
               /\ (slot.settled /\ ErrorTypeOf(slot) = "execution") =>
                    HandlerThrows(invocation))
  /\ [](params.toolExecutor = "default" =>
          /\ \A r \in ProducedResults : Has(r, "error") => r.error.retryable = FALSE
          /\ executorCalls = Cardinality(StepsOfType(state.steps, "tool_invocation")))
  /\ [][(pc = "await_tools" /\ pc' = "await_tools" /\ params.toolExecutor = "default") =>
          \A k \in 1..Len(batch.slots) :
            batch.slots[k].settled => batch'.slots[k] = batch.slots[k]]_vars

\* After a batch answered with a validation failure, a batch holds an
\* invocation of an unregistered tool, answered without a handler call, and
\* one whose handler has thrown.
C31_Witness ==
  /\ pc = "await_tools"
  /\ params.toolExecutor = "default"
  /\ Len(batch.slots) = 2
  /\ ~batch.slots[1].handlerCalled
  /\ ErrorTypeOf(batch.slots[1]) = "not_found"
  /\ batch.slots[2].handlerCalled
  /\ batch.slots[2].settled
  /\ ErrorTypeOf(batch.slots[2]) = "execution"
  /\ ResultsOfType("validation") # {}

----------------------------------------------------------------------------
(* The notification of the observers *)

\* C32: on every exit of the loop each observer's onRunFinished is called
\* exactly once: never twice, in list order, one call at a time, only once
\* the run has its termination step (maxSteps >= 1) and the result view is
\* built, with the result handed to the caller; and when runAgentLoop has
\* settled every observer has been called.
C32_ObserversNotifiedOnce ==
  /\ \A k \in 1..Len(observed) :
       /\ observed[k].finished <= 1
       /\ k \in Notified =>
            /\ \A h \in 1..(k - 1) : h \in Notified
            /\ RunIsOver
            /\ result = stateToRunResult(state)
            /\ params.config.maxSteps >= 1 => RunTerminated
  /\ pc \in {"returned", "rejected"} => Notified = 1..Len(observed)

----------------------------------------------------------------------------
(* The input of a model call *)

\* The tool messages of a message sequence.
ToolMessagesIn(messages) == SelectSeq(messages, LAMBDA m : m.role = "tool")

\* The call ids of the results fed back by the batches of a step history, in
\* order.
RECURSIVE FeedbackCallIds(_)
FeedbackCallIds(steps) ==
  IF steps = << >> THEN << >>
  ELSE (IF Head(steps).type = "tool_result"
          THEN [k \in 1..Len(Head(steps).results) |-> Head(steps).results[k].callId]
          ELSE << >>)
       \o FeedbackCallIds(Tail(steps))

\* The number of results of the batches recorded before position p.
ResultsBefore(steps, p) ==
  LET batches == { q \in 1..(p - 1) : steps[q].type = "tool_result" }
      sizes == [q \in batches |-> Len(steps[q].results)]
      RECURSIVE Sum(_)
      Sum(qs) == IF qs = {} THEN 0
                 ELSE LET q == CHOOSE x \in qs : TRUE
                      IN sizes[q] + Sum(qs \ {q})
  IN Sum(batches)

\* C33: the inputMessages of every model_call step is the message history as
\* it was when the call started: a prefix of the current messages, followed
\* there by the assistant message of that call if it has one; its tool
\* messages are the first tool messages of the history, one for every result
\* of the batches recorded before the call and in their order; the
\* outstanding call has the current history as its input; and a recorded step
\* is never changed by a later turn.
C33_InputSnapshot ==
  /\ [](/\ \A p \in StepsOfType(state.steps, "model_call") :
             LET input == state.steps[p].inputMessages
                 fed == ToolMessagesIn(input)
                 before == ResultsBefore(state.steps, p)
             IN /\ IsPrefix(input, state.messages)
                /\ Has(state.steps[p], "outputMessage") =>
                     /\ Len(state.messages) > Len(input)
                     /\ state.messages[Len(input) + 1] = state.steps[p].outputMessage
                /\ fed = SubSeq(ToolMessagesIn(state.messages), 1, before)
                /\ [k \in 1..Len(fed) |-> fed[k].toolCallId]
                     = SubSeq(FeedbackCallIds(state.steps), 1, before)
                /\ (~Has(state.steps[p], "outputMessage") /\ p = Len(state.steps) - 1)
                     => input = state.messages
        /\ pc = "await_model" => call.step.inputMessages = state.messages)
  /\ [][\A p \in 1..Len(state.steps) :
          Len(state'.steps) >= p /\ state'.steps[p] = state.steps[p]]_vars

\* The second model call of a run has answered: its input holds the two tool
\* messages of the first batch and ends before its own assistant message.
C33_Witness ==
  /\ Len(state.steps) >= 4
  /\ state.steps[4].type = "model_call"
  /\ Has(state.steps[4], "outputMessage")
  /\ Len(state.steps[4].inputMessages) = 5
  /\ Len(ToolMessagesIn(state.steps[4].inputMessages)) = 2
  /\ Len(state.messages) >= 6
  /\ state.messages[6] = state.steps[4].outputMessage
  /\ Len(state.steps[1].inputMessages) = 2

----------------------------------------------------------------------------
(* The grammar of the step history *)

\* The type of the step at position p of a round: model_call,
\* tool_invocation, tool_result, and again.
RoundType(p) ==
  CASE p % 3 = 1 -> "model_call"
    [] p % 3 = 2 -> "tool_invocation"
    [] p % 3 = 0 -> "tool_result"

\* C34: the step history of a run with maxSteps >= 1 is made of rounds
\* model_call, tool_invocation, tool_result; a run that is over ends with one
\* termination step, which stands after a model_call, after a
\* tool_invocation (only when the tool executor has rejected) or after a
\* tool_result; every tool_invocation step follows a model_call step that has
\* an outputMessage, and a model_call step with an error is the last step
\* only until the loop goes on, and is then followed at once by the
\* termination step.
C34_StepGrammar ==
  params.config.maxSteps >= 1 =>
    LET steps == state.steps
        n == Len(steps)
        body == IF RunTerminated THEN n - 1 ELSE n
    IN /\ \A p \in 1..body : steps[p].type = RoundType(p)
       /\ RunIsOver => RunTerminated
       /\ RunTerminated =>
            /\ n >= 2
            /\ steps[n].type = "termination"
            /\ steps[n - 1].type = "tool_invocation" =>
                 /\ params.toolExecutor \in CustomExecutors
                 /\ steps[n].reason = "model_error"
            /\ steps[n - 1].type = "tool_result" =>
                 steps[n].reason = "max_steps_reached"
       /\ \A p \in StepsOfType(steps, "tool_invocation") :
            /\ p >= 2
            /\ steps[p - 1].type = "model_call"
            /\ Has(steps[p - 1], "outputMessage")
       /\ \A p \in StepsOfType(steps, "model_call") :
            Has(steps[p], "error") =>
              IF pc = "model_returned"
                THEN p = n
                ELSE p < n /\ steps[p + 1].type = "termination"

\* A run whose second batch was rejected by its executor: one full round,
\* then model_call, tool_invocation, termination.
C34_Witness ==
  /\ pc = "returned"
  /\ Len(state.steps) = 6
  /\ state.steps[3].type = "tool_result"
  /\ state.steps[5].type = "tool_invocation"
  /\ state.steps[6].type = "termination"

----------------------------------------------------------------------------
(* A run without iterations *)

\* C35: with maxSteps < 1 the loop body is never entered.  Once started, the
\* run is at the notification of its observers with no model call and no
\* executor call made; the state and the result have status running, no
\* step (so no termination step), no terminationReason, no finalAnswer and no
\* error; and runAgentLoop returns that result, every observer having been
\* notified of it.
C35_NoIterations ==
  (params.config.maxSteps < 1 /\ pc # "created") =>
    /\ pc \in {"notify", "returned"}
    /\ modelCalls = 0
    /\ executorCalls = 0
    /\ call = NoCall /\ batch = NoBatch
    /\ state.steps = << >>
    /\ state.status = "running"
    /\ state.messages = <<SystemMessage, UserMessage>>
    /\ result = [status |-> "running", steps |-> << >>, totalToolCalls |-> 0]
    /\ ~Has(result, "terminationReason")
    /\ ~Has(result, "finalAnswer")
    /\ ~Has(result, "error")
    /\ pc = "returned" => Notified = 1..Len(observed)

----------------------------------------------------------------------------
(* Status, reason and error of a result *)

\* The status that belongs to a termination reason.
StatusImage(reason) ==
  CASE reason = "model_error" -> "failed"
    [] reason = "completed" -> "completed"
    [] reason = "max_steps_reached" -> "terminated"

\* C36: a result that has been built carries an error exactly when its status
\* is failed, which is exactly when its terminationReason is model_error; a
\* completed or terminated result has no error; the status is the image of
\* the terminationReason (model_error -> failed, completed -> completed,
\* max_steps_reached -> terminated), and every run with maxSteps >= 1 has a
\* terminationReason in its result.
C36_ErrorIffFailed ==
  RunIsOver =>
    /\ Has(result, "error") <=> result.status = "failed"
    /\ result.status = "failed" <=>
         (Has(result, "terminationReason") /\ result.terminationReason = "model_error")
    /\ result.status \in {"completed", "terminated"} => ~Has(result, "error")
    /\ Has(result, "terminationReason") =>
         /\ result.terminationReason \in ProducedReasons
         /\ result.status = StatusImage(result.terminationReason)
    /\ params.config.maxSteps >= 1 => Has(result, "terminationReason")

\* A run has returned failed because its tool executor rejected with a value
\* that is not an Error: the result carries the error made of it.
C36_Witness ==
  /\ pc = "returned"
  /\ result.status = "failed"
  /\ Has(result, "error")
  /\ result.error = "Unknown error: timeout"
  /\ result.terminationReason = "model_error"

\* A run has returned terminated by the tool-call budget, without an error.
C36_WitnessTerminated ==
  /\ pc = "returned"
  /\ result.status = "terminated"
  /\ EndedByBudget(result.steps)
  /\ ~Has(result, "error")

----------------------------------------------------------------------------
(* The final answer *)

\* The position of the last model_call step of a history, 0 if there is none.
LastModelCall(steps) ==
  IF StepsOfType(steps, "model_call") = {} THEN 0
  ELSE CHOOSE p \in StepsOfType(steps, "model_call") :
         \A q \in StepsOfType(steps, "model_call") : q <= p

\* C37: when a run has ended completed, finalAnswer is the assistant message
\* the last model call returned: the last element of messages, the
\* outputMessage of the last model_call step (the step before the
\* termination step), an assistant message without requested actions; the
\* result carries the same finalAnswer.
C37_FinalAnswer ==
  (Has(state, "terminationReason") /\ state.terminationReason = "completed") =>
    LET last == LastModelCall(state.steps) IN
    /\ Has(state, "finalAnswer")
    /\ state.finalAnswer = LastStep(state.messages)
    /\ last = Len(state.steps) - 1
    /\ last >= 1
    /\ Has(state.steps[last], "outputMessage")
    /\ state.finalAnswer = state.steps[last].outputMessage
    /\ state.finalAnswer.role = "assistant"
    /\ Len(ToolCallsOf(state.finalAnswer)) = 0
    /\ Has(result, "finalAnswer")
    /\ result.finalAnswer = state.finalAnswer

\* A run has completed on its second model call, which answered with an
\* assistant message whose list of requested actions is empty.
C37_Witness ==
  /\ pc = "returned"
  /\ result.status = "completed"
  /\ Len(state.steps) = 5
  /\ Has(result.finalAnswer, "toolCalls")
  /\ result.finalAnswer.toolCalls = << >>
  /\ Len(state.messages) >= 5

----------------------------------------------------------------------------
(* Assistant turns and their tool messages *)

\* The callId of the j-th action of the model call recorded at position p.
CallIdOfAction(steps, p, j) ==
  LET action == ToolCallsOf(steps[p].outputMessage)[j]
  IN IF action.id # "" THEN action.id
     ELSE "toolcall-" \o ToString(steps[p].index) \o "-" \o ToString(j - 1)

\* The model_call steps whose assistant message stands at position m of the
\* messages.
TurnOfMessage(steps, m) ==
  { p \in StepsOfType(steps, "model_call") :
      Has(steps[p], "outputMessage") /\ Len(steps[p].inputMessages) + 1 = m }

\* The run ended in the turn of the model call at position p, before its
\* batch was answered: by the budget check or by the executor's rejection.
EndedBeforeAnswer(steps, p) ==
  \/ p + 1 = Len(steps) /\ steps[p + 1].type = "termination"
  \/ /\ p + 2 = Len(steps)
     /\ steps[p + 1].type = "tool_invocation"
     /\ steps[p + 2].type = "termination"

\* C38: in the message history of a run of the default executor that is
\* over, every assistant message with n >= 1 requested actions is followed at
\* once by exactly n tool messages (the message after them, if any, is not a
\* tool message) whose toolCallIds are the callIds of the actions in order;
\* the one exception is the assistant message of the turn that ended the run
\* before its batch was answered, which is the last message.
C38_AssistantToolPairing ==
  (RunIsOver /\ params.toolExecutor = "default") =>
    \A m \in 1..Len(state.messages) :
      LET message == state.messages[m]
          n == Len(ToolCallsOf(message))
      IN (message.role = "assistant" /\ n >= 1) =>
           /\ Cardinality(TurnOfMessage(state.steps, m)) = 1
           /\ \A p \in TurnOfMessage(state.steps, m) :
                /\ state.steps[p].outputMessage = message
                /\ IF EndedBeforeAnswer(state.steps, p)
                     THEN m = Len(state.messages)
                     ELSE /\ Len(state.messages) >= m + n
                          /\ \A j \in 1..n :
                               /\ state.messages[m + j].role = "tool"
                               /\ state.messages[m + j].toolCallId
                                    = CallIdOfAction(state.steps, p, j)
                          /\ Len(state.messages) > m + n =>
                               state.messages[m + n + 1].role # "tool"

\* A run of the default executor is over with two assistant turns that
\* requested actions: the first, with one action, is followed by one tool
\* message and the next assistant message; the second, with two, ended the
\* run on the budget and is the last message.
C38_Witness ==
  /\ RunIsOver
  /\ params.toolExecutor = "default"
  /\ Len(state.messages) = 5
  /\ Len(ToolCallsOf(state.messages[3])) = 1
  /\ state.messages[4].role = "tool"
  /\ Len(ToolCallsOf(state.messages[5])) = 2
  /\ EndedByBudget(state.steps)

\* A run of the default executor is over whose assistant message requested
\* two actions, the second without an id: two tool messages follow, the
\* second correlated by the synthesized callId.
C38_WitnessSynthesized ==
  /\ RunIsOver
  /\ params.toolExecutor = "default"
  /\ Len(state.messages) = 5
  /\ Len(ToolCallsOf(state.messages[3])) = 2
  /\ state.messages[4].toolCallId = "call_a"
  /\ state.messages[5].toolCallId = "toolcall-0-1"

----------------------------------------------------------------------------
(* Exceptions of onStreamChunk *)

\* The chunks on which an observer can throw: what follows the exception
\* does not depend on the message a final chunk carries.
ForwardedChunks == PartialChunks \cup { FinalChunk(FinalAnswerMessage) }

\* C39: in incremental mode, when the onStreamChunk of an observer throws
\* while a chunk is forwarded, the observers after it are not handed the
\* chunk, the for await is left and nothing is recorded in that turn; once the
\* stream's return() has settled, resolved or rejected, the model call stage
\* has caught the exception like a failure of the model: the model_call step
\* is recorded with the error made of the exception and without
\* outputMessage, messages stay as they are, and that error is returned to
\* the loop, which ends the run failed with model_error and that error and
\* goes on to the notification; nothing is thrown to the caller.
\* A chunk with done = true and a message ends the consumption of the stream:
\* only a turn that takes a chunk that is not final leaves the stream to be
\* read on, and once the for await is left the one turn that follows is the
\* return of the model call, in which no observer is handed anything.
C39_OnStreamChunkThrows ==
  /\ [][(pc = "await_model" /\ params.chatStream /\ observed' # observed) =>
          \A thrower \in ChunkHandlers(params.runObservers) :
            \A chunk \in ForwardedChunks, err \in ThrownValues :
              OnStreamChunkThrowsWith(chunk, thrower, err) =>
                /\ state' = state
                /\ pc' = "await_model"
                /\ thrown' = thrown
                /\ ClosingOnThrow'
                /\ call'.closing.thrown = err
                /\ \A k \in 1..Len(observed) :
                     observed'[k] = IF k \in ChunkHandlers(params.runObservers)
                                       /\ k <= thrower
                                      THEN ObserveChunk(observed[k], chunk)
                                      ELSE observed[k]]_vars
  /\ [][ClosingOnThrow =>
          LET n == Len(state.steps)
              step == state'.steps[n + 1]
              message == toErrorMessage(call.closing.thrown, "Unknown model error")
          IN /\ Len(state'.steps) = n + 1
             /\ SubSeq(state'.steps, 1, n) = state.steps
             /\ step.type = "model_call"
             /\ step.inputMessages = state.messages
             /\ Has(step, "error") /\ step.error = message
             /\ ~Has(step, "outputMessage")
             /\ state'.messages = state.messages
             /\ state'.status = "running"
             /\ call'.modelResult = [error |-> message]
             /\ pc' = "model_returned"
             /\ thrown' = thrown
             /\ observed' = observed]_vars
  /\ [][LoopResumesOnFailure =>
          LET n == Len(state.steps)
              message == call.modelResult.error
          IN /\ state'.messages = state.messages
             /\ Len(state'.steps) = n + 1
             /\ state'.steps[n + 1].type = "termination"
             /\ state'.steps[n + 1].reason = "model_error"
             /\ state'.status = "failed"
             /\ state'.terminationReason = "model_error"
             /\ Has(state', "error") /\ state'.error = message
             /\ ~Has(state', "finalAnswer")
             /\ pc' = "notify"
             /\ thrown' = thrown
             /\ observed' = notifyRunFinished(observed)]_vars
  /\ [][(pc = "await_model" /\ params.chatStream /\ ~StreamClosing
         /\ pc' = "await_model" /\ ~StreamClosing') =>
          \E chunk \in PartialChunks : StreamChunkWith(chunk)]_vars
  /\ [][StreamClosing =>
          /\ observed' = observed
          /\ pc' = "model_returned"
          /\ ~call'.active]_vars

\* The first observer's onStreamChunk has thrown an Error on a chunk that says
\* done, in the first model call: the stream was closed, the run has failed
\* with the Error's message, the first observer was handed the chunk and the
\* third was not.
C39_Witness ==
  /\ pc = "notify"
  /\ params.chatStream
  /\ Len(observed) = 3
  /\ observed[1].lines = 1
  /\ observed[3].lines = 0
  /\ Len(state.steps) = 2
  /\ Has(state.steps[1], "error")
  /\ state.steps[1].error = "model down"
  /\ result.status = "failed"
  /\ result.error = "model down"
  /\ Len(state.messages) = 2

----------------------------------------------------------------------------
(* Exceptions of onRunFinished *)

\* C40: the notification of the observers is outside the catch around the
\* loop.  The turn in which the awaited onRunFinished of an observer is found
\* to have thrown or rejected makes runAgentLoop reject with what was thrown
\* and leaves the run state and the result as they were (no further
\* termination step, status unchanged), as does every turn of the
\* notification; no observer is called in that turn; the observers are called
\* in list order, so those behind the one that threw have not been called;
\* and nothing happens after the rejection, so they never are.
C40_OnRunFinishedThrows ==
  /\ [][\A err \in ThrownValues :
          OnRunFinishedRejectsWith(err) =>
            /\ pc' = "rejected"
            /\ thrown' = err
            /\ state' = state
            /\ result' = result
            /\ observed' = observed]_vars
  /\ [][pc = "notify" => (state' = state /\ result' = result)]_vars
  /\ [][pc # "rejected"]_vars
  /\ [](Notified = 1..PendingObserver)
  /\ [](/\ pc = "rejected" =>
             /\ thrown \in ThrownValues
             /\ Notified # {}
             /\ result = stateToRunResult(state)
             /\ Cardinality(TerminationPositions(state.steps)) <= 1
             /\ params.config.maxSteps >= 1 =>
                  /\ LastStep(state.steps).type = "termination"
                  /\ state.status = StatusImage(LastStep(state.steps).reason)
        /\ pc # "rejected" => thrown = NotThrown)

\* The second of three observers has thrown an Error from onRunFinished after
\* a completed run: runAgentLoop has rejected with it, the third observer was
\* not notified, and the run is still completed.
C40_Witness ==
  /\ pc = "rejected"
  /\ thrown = [isError |-> TRUE, message |-> "model down"]
  /\ Len(observed) = 3
  /\ observed[1].finished = 1
  /\ observed[2].finished = 1
  /\ observed[3].finished = 0
  /\ state.status = "completed"
  /\ Len(state.steps) = 2

====
